---- MODULE Spec2Model ----
(***************************************************************************)
(* EdgeFlow backend (src/server.js, the multi-mentor variant that starts   *)
(* at line 467): license registry, mentor directory, signal log, WebSocket *)
(* fan-out and student registry, as a state machine.                       *)
(*                                                                         *)
(* Node runs every handler to its next `await` without interruption, so an *)
(* action is one such run.  A request that awaits sits in a slot of `req`  *)
(* between its runs.  A query of the mentor table is evaluated in the run  *)
(* that issues it: that run has no other effect on shared state, so moving *)
(* it to the moment the database answers loses no behaviour.               *)
(*                                                                         *)
(* Strings the code inspects character by character (mentor ids, license   *)
(* keys, signal ids) are sequences of one-character strings; the empty     *)
(* sequence stands for every falsy string value (undefined, null, "").     *)
(* An optional record is the sequence of rows a query returned.            *)
(***************************************************************************)
EXTENDS Integers, Sequences, FiniteSets, TLC

VARIABLES
    mentors,      \* rows of the Supabase table 'mentors'
    licenseKeys,  \* let licenseKeys = []
    signals,      \* let signals = []
    students,     \* let students = []
    clients,      \* const clients = new Set(), in insertion order
    readyState,   \* ws.readyState of every connection (0 before it exists)
    inbox,        \* the messages each connection has been sent
    req,          \* the requests that are suspended at an await
    lastResp,     \* the response written last
    now,          \* Date.now()
    issued,       \* history: every signal id assigned, oldest first
    due,          \* history: per connection, the signals broadcast while it was open
    sendFailed,   \* history: the <<connection, signal>> sends that raised
    orders,       \* history: the order calls made on the execution backend
    accounts,     \* the number of accounts the execution backend has created
    deactivated,  \* history: the keys whose deactivation reported success, in order
    events        \* history: per connection, the close and error events handled

vars == <<mentors, licenseKeys, signals, students, clients, readyState, inbox,
          req, lastResp, now, issued, due, sendFailed, orders, accounts, deactivated, events>>

----------------------------------------------------------------------------
(* Bounds of the model *)

MaxInflight == 2       \* requests suspended at the same time
MaxMentors == 2        \* rows of the mentor table
MaxLicenses == 2       \* licenses issued
MaxConns == 2          \* WebSocket connections made
MaxIngest == 3         \* signals ingested while connections come and go
MaxIngestSnap == 22    \* signals ingested around one connection
MaxIngestLog == 103    \* signals ingested one after the other
MaxClock == 2          \* milliseconds the clock advances
MaxStudents == 2       \* student records
MaxAccounts == 3       \* accounts created on the execution backend
MaxDeactivations == 2  \* deactivations that report success
MaxIngestAny == 2      \* signals ingested among requests of every shape
MaxElapsed == 120000   \* milliseconds that pass while heartbeats are watched
MaxIngestExec == 2     \* signals ingested and executed for students
MaxIngestCopy == 1     \* signals copied while students stop and licenses end
StartClock == 1000     \* Date.now() when the process starts

(* Constants of the program *)

LogCap == 100          \* if (signals.length > 100) signals = signals.slice(0, 100)
SnapshotSize == 20     \* signals.slice(0, 20)

Slots == 1..MaxInflight
Conns == 1..MaxConns

----------------------------------------------------------------------------
(* Strings *)

NoStr == <<>>

chars == <<"A","B","C","D","E","F","G","H","I","J","K","L","M",
           "N","O","P","Q","R","S","T","U","V","W","X","Y","Z",
           "0","1","2","3","4","5","6","7","8","9">>

charAt(i) == chars[i + 1]

Digit == {"0","1","2","3","4","5","6","7","8","9"}

UpperOrDigit == {chars[i] : i \in 1..Len(chars)}

DigitChar(d) == <<"0","1","2","3","4","5","6","7","8","9">>[d + 1]

RECURSIVE toString(_)
toString(n) == IF n < 10 THEN <<DigitChar(n)>>
               ELSE toString(n \div 10) \o <<DigitChar(n % 10)>>

----------------------------------------------------------------------------
(* Inputs *)

EaIds == {"", "EA1"}
\* the six Math.random() outcomes of one generateLicenseKey call, as indexes
RandomDraws == {<<0,0,0,0,0,0>>, <<0,0,0,0,0,35>>}

----------------------------------------------------------------------------
(* Mentor directory *)

\* .single(): the row when exactly one matches, an error otherwise
single(rows) == IF Len(rows) = 1 THEN rows ELSE <<>>

\* .maybeSingle(): data is the row when exactly one matches, null otherwise
maybeSingle(rows) == IF Len(rows) = 1 THEN rows ELSE <<>>

generateMentorId(u) == toString(10000 + u)

\* a validation that does not look at the active flag
validateMentorIdAnyRow(mentorId) ==
    LET Match(m) == m.mentor_id = mentorId
    IN single(SelectSeq(mentors, Match))

validateMentorId(mentorId) ==
    LET Match(m) == m.mentor_id = mentorId /\ m.active
    IN single(SelectSeq(mentors, Match))

selectByEmail(email) ==
    LET Match(m) == m.email = email
    IN maybeSingle(SelectSeq(mentors, Match))

selectByMentorId(id) ==
    LET Match(m) == m.mentor_id = id
    IN maybeSingle(SelectSeq(mentors, Match))

\* how many rows of the table carry the e-mail (kept with a request for the
\* properties; the program sees only what .maybeSingle() makes of them)
rowsWithEmail(email) ==
    Cardinality({i \in 1..Len(mentors) : mentors[i].email = email})

MentorIds == {mentors[i].mentor_id : i \in 1..Len(mentors)}

\* the x-mentor-id header of a request: absent, or a registered id
MentorHeaders == MentorIds \cup {NoStr}

\* a row of the table is set inactive, which the program leaves to the
\* administrator of the table: validateMentorId asks for active = true
MentorInactivated(i) ==
    /\ i \in 1..Len(mentors)
    /\ mentors[i].active
    /\ mentors' = [mentors EXCEPT ![i].active = FALSE]
    /\ UNCHANGED <<licenseKeys, signals, students, clients, readyState, inbox,
                   req, lastResp, now, issued, due, sendFailed, orders, accounts,
                   deactivated, events>>

----------------------------------------------------------------------------
(* Requests *)

Idle == [op |-> "idle"]

FreeSlot(r) == req[r] = Idle /\ \A q \in Slots : q < r => req[q] # Idle

Suspended(op) == Cardinality({r \in Slots : req[r].op = op})

Respond(r, resp) ==
    /\ lastResp' = resp
    /\ req' = [req EXCEPT ![r] = Idle]

Init ==
    /\ mentors = <<>>
    /\ licenseKeys = <<>>
    /\ signals = <<>>
    /\ students = <<>>
    /\ clients = <<>>
    /\ readyState = [c \in Conns |-> 0]
    /\ inbox = [c \in Conns |-> <<>>]
    /\ req = [r \in Slots |-> Idle]
    /\ lastResp = [op |-> "none"]
    /\ now = StartClock
    /\ issued = <<>>
    /\ due = [c \in Conns |-> {}]
    /\ sendFailed = {}
    /\ orders = {}
    /\ accounts = 0
    /\ deactivated = <<>>
    /\ events = [c \in Conns |-> <<>>]

----------------------------------------------------------------------------
(* POST /mentor/register *)

MentorRegisterBegin(r, name, email, mentor_id) ==
    /\ FreeSlot(r)
    /\ IF name = "" \/ email = ""
       THEN /\ lastResp' = [op |-> "mentorRegister", status |-> 400,
                            error |-> "Missing required fields"]
            /\ UNCHANGED req
       ELSE /\ req' = [req EXCEPT ![r] =
                         [op |-> "mentorRegister", pc |-> "emailChecked",
                          name |-> name, email |-> email, mentor_id |-> mentor_id,
                          existing |-> selectByEmail(email),
                          matching |-> rowsWithEmail(email)]]
            /\ UNCHANGED lastResp
    /\ UNCHANGED <<mentors, licenseKeys, signals, students, clients, readyState,
                   inbox, now, issued, due, sendFailed, orders, accounts, deactivated, events>>

\* after the e-mail lookup: answer for a known e-mail, or pick an id and look it up
MentorRegisterPickId(r, u) ==
    /\ req[r].op = "mentorRegister" /\ req[r].pc = "emailChecked"
    /\ IF req[r].existing # <<>>
       THEN Respond(r, [op |-> "mentorRegister", status |-> 200,
                        already_registered |-> TRUE,
                        email |-> req[r].email,
                        mentor_id |-> req[r].existing[1].mentor_id])
       ELSE LET mentorIdGenerated ==
                    IF req[r].mentor_id # NoStr THEN req[r].mentor_id
                    ELSE generateMentorId(u)
            IN /\ req' = [req EXCEPT ![r] =
                            [op |-> "mentorRegister", pc |-> "idChecked",
                             name |-> req[r].name, email |-> req[r].email,
                             mentorIdGenerated |-> mentorIdGenerated,
                             idCheck |-> selectByMentorId(mentorIdGenerated)]]
               /\ UNCHANGED lastResp
    /\ UNCHANGED <<mentors, licenseKeys, signals, students, clients, readyState,
                   inbox, now, issued, due, sendFailed, orders, accounts, deactivated, events>>

\* while (idCheck): draw another id and look it up
MentorRegisterRetryId(r, u) ==
    /\ req[r].op = "mentorRegister" /\ req[r].pc = "idChecked"
    /\ req[r].idCheck # <<>>
    /\ req' = [req EXCEPT ![r].mentorIdGenerated = generateMentorId(u),
                          ![r].idCheck = selectByMentorId(generateMentorId(u))]
    /\ UNCHANGED <<mentors, licenseKeys, signals, students, clients, readyState,
                   inbox, lastResp, now, issued, due, sendFailed, orders, accounts, deactivated, events>>

\* the insert, and the response it leads to
MentorRegisterInsert(r, insertOk) ==
    /\ req[r].op = "mentorRegister" /\ req[r].pc = "idChecked"
    /\ req[r].idCheck = <<>>
    /\ IF insertOk
       THEN /\ mentors' = Append(mentors,
                             [mentor_id |-> req[r].mentorIdGenerated,
                              name |-> req[r].name, email |-> req[r].email,
                              active |-> TRUE])
            /\ Respond(r, [op |-> "mentorRegister", status |-> 200,
                           already_registered |-> FALSE,
                           email |-> req[r].email,
                           mentor_id |-> req[r].mentorIdGenerated])
       ELSE /\ UNCHANGED mentors
            /\ Respond(r, [op |-> "mentorRegister", status |-> 500,
                           error |-> "Registration failed"])
    /\ UNCHANGED <<licenseKeys, signals, students, clients, readyState,
                   inbox, now, issued, due, sendFailed, orders, accounts, deactivated, events>>

----------------------------------------------------------------------------
(* License registry *)

generateLicenseKey(mentorPrefix, rnd) ==
    LET segment1 == <<charAt(rnd[1]), charAt(rnd[3]), charAt(rnd[5])>>
        segment2 == <<charAt(rnd[2]), charAt(rnd[4]), charAt(rnd[6])>>
    IN mentorPrefix \o <<"-">> \o segment1 \o <<"-">> \o segment2

\* licenseKeys.find(l => l.key === licenseKey), as the rows found
findLicense(licenseKey) ==
    LET Match(l) == l.key = licenseKey
    IN SelectSeq(licenseKeys, Match)

\* a generator that never looks for a collision
KeyTakenNever(licenseKey) == FALSE

\* the loop condition of generateLicense
KeyTaken(licenseKey) == findLicense(licenseKey) # <<>>

\* /^[0-9]{5}-[A-Z0-9]{3}-[A-Z0-9]{3}$/.test(key)
regexTest(key) ==
    /\ Len(key) = 13
    /\ \A i \in 1..5 : key[i] \in Digit
    /\ key[6] = "-"
    /\ \A i \in 7..9 : key[i] \in UpperOrDigit
    /\ key[10] = "-"
    /\ \A i \in 11..13 : key[i] \in UpperOrDigit

\* POST /generateLicense up to `await validateMentorId`
GenerateLicenseBegin(r, mentorId, ea_id) ==
    /\ FreeSlot(r)
    /\ req' = [req EXCEPT ![r] = [op |-> "generateLicense",
                                  mentorId |-> mentorId,
                                  mentor |-> validateMentorId(mentorId),
                                  ea_id |-> ea_id]]
    /\ UNCHANGED <<mentors, licenseKeys, signals, students, clients, readyState,
                   inbox, lastResp, now, issued, due, sendFailed, orders, accounts, deactivated, events>>

\* POST /generateLicense after the await; rnd is the draw that ends the loop
GenerateLicenseResume(r, rnd) ==
    /\ req[r].op = "generateLicense"
    /\ IF req[r].mentor = <<>>
       THEN /\ Respond(r, [op |-> "generateLicense", status |-> 401])
            /\ UNCHANGED licenseKeys
       ELSE IF req[r].ea_id = ""
       THEN /\ Respond(r, [op |-> "generateLicense", status |-> 400])
            /\ UNCHANGED licenseKeys
       ELSE LET mentor == req[r].mentor[1]
                licenseKey == generateLicenseKey(mentor.mentor_id, rnd)
            IN /\ ~KeyTaken(licenseKey)
               /\ licenseKeys' = Append(licenseKeys,
                                   [key |-> licenseKey, ea_id |-> req[r].ea_id,
                                    mentor_id |-> mentor.mentor_id,
                                    active |-> TRUE])
               /\ Respond(r, [op |-> "generateLicense", status |-> 200,
                              licenseKey |-> licenseKey,
                              mentorId |-> mentor.mentor_id])
    /\ UNCHANGED <<mentors, signals, students, clients, readyState,
                   inbox, now, issued, due, sendFailed, orders, accounts, deactivated, events>>

\* a lookup that runs before the format check
validateResponseLookupFirst(licenseKey) ==
    IF licenseKey = NoStr
    THEN [valid |-> FALSE, reason |-> "License key is required"]
    ELSE IF findLicense(licenseKey) = <<>>
    THEN [valid |-> FALSE, reason |-> "License key not found"]
    ELSE IF ~findLicense(licenseKey)[1].active
    THEN [valid |-> FALSE, reason |-> "License key is inactive"]
    ELSE IF ~regexTest(licenseKey)
    THEN [valid |-> FALSE, reason |-> "Invalid key format"]
    ELSE [valid |-> TRUE, reason |-> "Valid license"]

\* the body of the response of POST /validateLicense
validateResponse(licenseKey) ==
    IF licenseKey = NoStr
    THEN [valid |-> FALSE, reason |-> "License key is required"]
    ELSE IF ~regexTest(licenseKey)
    THEN [valid |-> FALSE, reason |-> "Invalid key format"]
    ELSE IF findLicense(licenseKey) = <<>>
    THEN [valid |-> FALSE, reason |-> "License key not found"]
    ELSE IF ~findLicense(licenseKey)[1].active
    THEN [valid |-> FALSE, reason |-> "License key is inactive"]
    ELSE [valid |-> TRUE, reason |-> "Valid license"]

\* POST /validateLicense
ValidateLicense(licenseKey) ==
    /\ lastResp' = [op |-> "validateLicense", key |-> licenseKey, status |-> 200]
                      @@ validateResponse(licenseKey)
    /\ UNCHANGED <<mentors, licenseKeys, signals, students, clients, readyState,
                   inbox, req, now, issued, due, sendFailed, orders, accounts, deactivated, events>>

\* POST /deactivateLicense up to `await validateMentorId`
DeactivateLicenseBegin(r, mentorId, licenseKey) ==
    /\ FreeSlot(r)
    /\ req' = [req EXCEPT ![r] = [op |-> "deactivateLicense",
                                  mentorId |-> mentorId,
                                  mentor |-> validateMentorId(mentorId),
                                  licenseKey |-> licenseKey]]
    /\ UNCHANGED <<mentors, licenseKeys, signals, students, clients, readyState,
                   inbox, lastResp, now, issued, due, sendFailed, orders, accounts, deactivated, events>>

\* a deactivation that deletes the record
deactivateRemoves(licenseKey) ==
    LET Other(l) == l.key # licenseKey
    IN SelectSeq(licenseKeys, Other)

\* a deactivation that flips the flag: license.active = !license.active
deactivateToggles(licenseKey) ==
    LET i == CHOOSE j \in 1..Len(licenseKeys) :
                 /\ licenseKeys[j].key = licenseKey
                 /\ \A k \in 1..(j - 1) : licenseKeys[k].key # licenseKey
    IN [licenseKeys EXCEPT ![i].active = ~licenseKeys[i].active]

\* license.active = false on the record that find returned (the first match)
deactivate(licenseKey) ==
    LET i == CHOOSE j \in 1..Len(licenseKeys) :
                 /\ licenseKeys[j].key = licenseKey
                 /\ \A k \in 1..(j - 1) : licenseKeys[k].key # licenseKey
    IN [licenseKeys EXCEPT ![i].active = FALSE]

\* every mentor passes the ownership check
ownsLicenseAlways(license, mentor) == TRUE

\* license.mentor_id !== mentor.mentor_id, negated
ownsLicense(license, mentor) == license.mentor_id = mentor.mentor_id

\* POST /deactivateLicense after the await
DeactivateLicenseResume(r) ==
    /\ req[r].op = "deactivateLicense"
    /\ LET license == findLicense(req[r].licenseKey)
           base == [op |-> "deactivateLicense", key |-> req[r].licenseKey]
       IN IF req[r].mentor = <<>>
          THEN /\ Respond(r, base @@ [status |-> 401])
               /\ UNCHANGED <<licenseKeys, deactivated>>
          ELSE IF license = <<>>
          THEN /\ Respond(r, base @@ [status |-> 404])
               /\ UNCHANGED <<licenseKeys, deactivated>>
          ELSE IF ~ownsLicense(license[1], req[r].mentor[1])
          THEN /\ Respond(r, base @@ [status |-> 403])
               /\ UNCHANGED <<licenseKeys, deactivated>>
          ELSE /\ licenseKeys' = deactivate(req[r].licenseKey)
               /\ deactivated' = Append(deactivated, req[r].licenseKey)
               /\ Respond(r, base @@ [status |-> 200])
    /\ UNCHANGED <<mentors, signals, students, clients, readyState,
                   inbox, now, issued, due, sendFailed, orders, accounts, events>>

\* licenseKeys with no filter at all
mentorLicensesAll(mentor) == licenseKeys

\* licenseKeys.filter(l => l.mentor_id === mentor.mentor_id)
mentorLicenses(mentor) ==
    LET Own(l) == l.mentor_id = mentor.mentor_id
    IN SelectSeq(licenseKeys, Own)

\* GET /licenses up to `await validateMentorId`
ListLicensesBegin(r, mentorId) ==
    /\ FreeSlot(r)
    /\ req' = [req EXCEPT ![r] = [op |-> "licenses",
                                  mentorId |-> mentorId,
                                  mentor |-> validateMentorId(mentorId)]]
    /\ UNCHANGED <<mentors, licenseKeys, signals, students, clients, readyState,
                   inbox, lastResp, now, issued, due, sendFailed, orders, accounts,
                   deactivated, events>>

\* GET /licenses after the await
ListLicensesResume(r) ==
    /\ req[r].op = "licenses"
    /\ IF req[r].mentor = <<>>
       THEN Respond(r, [op |-> "licenses", status |-> 401])
       ELSE Respond(r, [op |-> "licenses", status |-> 200,
                        mentor_id |-> req[r].mentor[1].mentor_id,
                        licenses |-> mentorLicenses(req[r].mentor[1])])
    /\ UNCHANGED <<mentors, licenseKeys, signals, students, clients, readyState,
                   inbox, now, issued, due, sendFailed, orders, accounts,
                   deactivated, events>>

\* the license keys a request may name: the stored ones, a well-formed unknown
\* one, a malformed one and none
KeyInputs ==
    {licenseKeys[i].key : i \in 1..Len(licenseKeys)}
    \cup {NoStr,
          <<"1","0","0","0","0","-","Z","Z","Z","-","Z","Z","Z">>,
          <<"e","d","f","-","a","a","a">>}

----------------------------------------------------------------------------
(* Signal log and fan-out *)

lower == <<"a","b","c","d","e","f","g","h","i","j","k","l","m",
           "n","o","p","q","r","s","t","u","v","w","x","y","z">>

upperOf(ch) ==
    IF \E i \in 1..Len(lower) : lower[i] = ch
    THEN chars[CHOOSE i \in 1..Len(lower) : lower[i] = ch]
    ELSE ch

toUpperCase(str) == [i \in 1..Len(str) |-> upperOf(str[i])]

\* !x of an optional number: undefined and 0 are falsy
falsy(x) == x = <<>> \/ x = <<0>>

Range(seq) == {seq[i] : i \in 1..Len(seq)}

Min(a, b) == IF a < b THEN a ELSE b

\* a trim that drops the newest entry instead of the oldest
trimOldestKept(log) == IF Len(log) > LogCap THEN SubSeq(log, 2, LogCap + 1) ELSE log

\* if (signals.length > 100) signals = signals.slice(0, 100)
trim(log) == IF Len(log) > LogCap THEN SubSeq(log, 1, LogCap) ELSE log

\* a snapshot of the oldest entries: signals.slice(-20)
snapshotFromEnd(log) == SubSeq(log, Len(log) - Min(SnapshotSize, Len(log)) + 1, Len(log))

\* signals.slice(0, 20)
snapshot(log) == SubSeq(log, 1, Min(SnapshotSize, Len(log)))

\* GET /signals/:ea_id
signalsByEa(ea_id) ==
    LET Match(sig) == sig.ea_id = ea_id
    IN SelectSeq(signals, Match)

\* a broadcast with no readyState check
openClientsAny == clients

\* the clients that pass `client.readyState === 1`, in the order of the Set
openClients ==
    LET Open(c) == readyState[c] = 1
    IN SelectSeq(clients, Open)

\* the position in openClients of the first client whose send raises, or 0
firstRaising(failing) ==
    IF \E k \in 1..Len(openClients) : openClients[k] \in failing
    THEN CHOOSE k \in 1..Len(openClients) :
             /\ openClients[k] \in failing
             /\ \A j \in 1..(k - 1) : openClients[j] \notin failing
    ELSE 0

\* the clients broadcastSignal has sent to when forEach ends or is aborted
sentTo(failing) ==
    IF firstRaising(failing) = 0 THEN Range(openClients)
    ELSE Range(SubSeq(openClients, 1, firstRaising(failing) - 1))

metaApi == TRUE

\* a filter that does not look at the mentor
mentorStudentsAnyMentor(mentor_id) ==
    LET Match(st) == st.status = "active" /\ st.metaapi_account_id # 0
    IN SelectSeq(students, Match)

\* students.filter(s => s.mentor_id === ... && s.status === 'active' && s.metaapi_account_id)
mentorStudents(mentor_id) ==
    LET Match(st) == /\ st.mentor_id = mentor_id
                     /\ st.status = "active"
                     /\ st.metaapi_account_id # 0
    IN SelectSeq(students, Match)

\* a check that does not look at symbol
missingRequiredButSymbol(body) ==
    \/ body.ea_id = "" \/ body.type = NoStr
    \/ falsy(body.sl) \/ falsy(body.tp)

\* !ea_id || !type || !symbol || !sl || !tp
missingRequired(body) ==
    \/ body.ea_id = "" \/ body.type = NoStr \/ body.symbol = NoStr
    \/ falsy(body.sl) \/ falsy(body.tp)

\* POST /receiveSignal up to `await validateMentorId`
ReceiveSignalBegin(r, mentorId, body) ==
    /\ FreeSlot(r)
    /\ req' = [req EXCEPT ![r] = [op |-> "receiveSignal", pc |-> "validated",
                                  mentorId |-> mentorId,
                                  mentor |-> validateMentorId(mentorId),
                                  body |-> body]]
    /\ UNCHANGED <<mentors, licenseKeys, signals, students, clients, readyState,
                   inbox, lastResp, now, issued, due, sendFailed, orders, accounts, deactivated, events>>

\* POST /receiveSignal from the await to the first backend call or the response;
\* `failing` are the connections whose send raises during this broadcast
ReceiveSignalResume(r, failing) ==
    /\ req[r].op = "receiveSignal" /\ req[r].pc = "validated"
    /\ LET body == req[r].body
       IN IF req[r].mentor = <<>>
          THEN /\ Respond(r, [op |-> "receiveSignal", status |-> 401])
               /\ UNCHANGED <<signals, inbox, issued, due, sendFailed>>
          ELSE IF missingRequired(body)
          THEN /\ Respond(r, [op |-> "receiveSignal", status |-> 400, body |-> body,
                              required |-> <<"ea_id", "type", "symbol", "sl", "tp">>])
               /\ UNCHANGED <<signals, inbox, issued, due, sendFailed>>
          ELSE LET mentor == req[r].mentor[1]
                   newSignal == [id |-> toString(now),
                                 ea_id |-> body.ea_id,
                                 mentor_id |-> mentor.mentor_id,
                                 type |-> toUpperCase(body.type),
                                 symbol |-> toUpperCase(body.symbol),
                                 sl |-> body.sl[1],
                                 tp |-> body.tp[1],
                                 seq |-> Len(issued) + 1]
                   message == [type |-> "signal", data |-> newSignal]
                   raising == firstRaising(failing)
                   targets == mentorStudents(mentor.mentor_id)
               IN /\ signals' = trim(<<newSignal>> \o signals)
                  /\ issued' = Append(issued, newSignal.id)
                  /\ inbox' = [c \in Conns |->
                                 IF c \in sentTo(failing)
                                 THEN Append(inbox[c], message) ELSE inbox[c]]
                  /\ due' = [c \in Conns |->
                               IF c \in Range(openClients)
                               THEN due[c] \cup {newSignal.seq} ELSE due[c]]
                  /\ sendFailed' = IF raising = 0 THEN sendFailed
                                   ELSE sendFailed \cup
                                        {<<openClients[raising], newSignal.seq>>}
                  /\ IF raising # 0
                     THEN Respond(r, [op |-> "receiveSignal", status |-> 500,
                                      signal_id |-> newSignal.id])
                     ELSE IF ~metaApi \/ targets = <<>>
                     THEN Respond(r, [op |-> "receiveSignal", status |-> 200,
                                      signal_id |-> newSignal.id])
                     ELSE /\ req' = [req EXCEPT ![r] =
                                       [op |-> "receiveSignal", pc |-> "exec",
                                        queue |-> targets, body |-> body,
                                        signal |-> newSignal]]
                          /\ UNCHANGED lastResp
    /\ UNCHANGED <<mentors, licenseKeys, students, clients, readyState,
                   now, orders, accounts, deactivated, events>>

\* a loop that a failure ends: the try around the loop, not inside it
remainingNoneAfterFailure(queue, outcome) ==
    IF outcome = "failed" THEN <<>> ELSE Tail(queue)

\* the students still to execute for after one turn: the catch is inside the
\* loop, so the turn's outcome does not matter
remaining(queue, outcome) == Tail(queue)

\* one turn of `for (const student of mentorStudents)`: the backend calls for
\* the student succeed ("placed"), or one of them raises or times out
\* ("failed"), or one of them never returns ("hangs": none but waitConnected
\* is given a timeout)
ReceiveSignalExec(r, outcome) ==
    /\ req[r].op = "receiveSignal" /\ req[r].pc = "exec"
    /\ LET student == Head(req[r].queue)
           side == IF toUpperCase(req[r].body.type) = <<"B","U","Y">>
                   THEN "buy" ELSE "sell"
       IN /\ orders' = orders \cup {[license_key |-> student.license_key,
                                      side |-> side,
                                      seq |-> req[r].signal.seq,
                                      result |-> outcome]}
          /\ IF outcome = "hangs"
             THEN /\ req' = [req EXCEPT ![r].pc = "hung"]
                  /\ UNCHANGED lastResp
             ELSE IF remaining(req[r].queue, outcome) = <<>>
             THEN Respond(r, [op |-> "receiveSignal", status |-> 200,
                              signal_id |-> req[r].signal.id])
             ELSE /\ req' = [req EXCEPT ![r].queue = remaining(req[r].queue, outcome)]
                  /\ UNCHANGED lastResp
    /\ UNCHANGED <<mentors, licenseKeys, signals, students, clients, readyState,
                   inbox, now, issued, due, sendFailed, accounts, deactivated, events>>

\* wss.on('connection')
Connect(c) ==
    /\ readyState[c] = 0
    /\ readyState' = [readyState EXCEPT ![c] = 1]
    /\ clients' = IF c \in Range(clients) THEN clients ELSE Append(clients, c)
    /\ inbox' = [inbox EXCEPT ![c] =
                   Append(inbox[c], [type |-> "initial", signals |-> snapshot(signals)])]
    /\ UNCHANGED <<mentors, licenseKeys, signals, students, req, lastResp, now,
                   issued, due, sendFailed, orders, accounts, deactivated, events>>

\* the closing handshake starts: readyState is CLOSING, no event yet
StartClosing(c) ==
    /\ readyState[c] = 1
    /\ readyState' = [readyState EXCEPT ![c] = 2]
    /\ UNCHANGED <<mentors, licenseKeys, signals, students, clients, inbox, req,
                   lastResp, now, issued, due, sendFailed, orders, accounts, deactivated, events>>

\* a handler that leaves the Set as it is
removeNothing(c) == clients

\* clients.delete(ws)
remove(c) ==
    LET Other(x) == x # c
    IN SelectSeq(clients, Other)

\* ws.on('close')
OnClose(c) ==
    /\ readyState[c] \in {1, 2}
    /\ readyState' = [readyState EXCEPT ![c] = 3]
    /\ clients' = remove(c)
    /\ events' = [events EXCEPT ![c] = Append(events[c], "close")]
    /\ UNCHANGED <<mentors, licenseKeys, signals, students, inbox, req,
                   lastResp, now, issued, due, sendFailed, orders, accounts, deactivated>>

\* ws.on('error'): the socket is closing and its close event is still to come
OnError(c) ==
    /\ readyState[c] \in {1, 2}
    /\ c \in Range(clients)
    /\ readyState' = [readyState EXCEPT ![c] = 2]
    /\ clients' = remove(c)
    /\ events' = [events EXCEPT ![c] = Append(events[c], "error")]
    /\ UNCHANGED <<mentors, licenseKeys, signals, students, inbox, req,
                   lastResp, now, issued, due, sendFailed, orders, accounts, deactivated>>

\* a millisecond passes
Tick ==
    /\ now' = now + 1
    /\ UNCHANGED <<mentors, licenseKeys, signals, students, clients, readyState,
                   inbox, req, lastResp, issued, due, sendFailed, orders, accounts, deactivated, events>>

----------------------------------------------------------------------------
(* Student registry *)

\* a lookup that never finds a student
findStudentNever(license_key) == <<>>

\* students.find(s => s.license_key === license_key), as the rows found
findStudent(license_key) ==
    LET Same(st) == st.license_key = license_key
    IN SelectSeq(students, Same)

\* POST /student/register up to `await accountApi.createAccount`
StudentRegisterBegin(r, license_key, account_number, password, server) ==
    /\ FreeSlot(r)
    /\ LET Usable(l) == l.key = license_key /\ l.active
           license == SelectSeq(licenseKeys, Usable)
           existing == findStudent(license_key)
           answer(status) == /\ lastResp' = [op |-> "studentRegister",
                                             key |-> license_key,
                                             account_number |-> account_number,
                                             status |-> status]
                             /\ UNCHANGED req
       IN IF license_key = NoStr \/ account_number = "" \/ password = "" \/ server = ""
          THEN answer(400)
          ELSE IF license = <<>> THEN answer(403)
          ELSE IF existing # <<>> THEN answer(409)
          ELSE IF ~metaApi THEN answer(500)
          ELSE /\ req' = [req EXCEPT ![r] =
                            [op |-> "studentRegister", license_key |-> license_key,
                             account_number |-> account_number, server |-> server,
                             license |-> license[1]]]
               /\ UNCHANGED lastResp
    /\ UNCHANGED <<mentors, licenseKeys, signals, students, clients, readyState,
                   inbox, now, issued, due, sendFailed, orders, accounts, deactivated, events>>

\* the student of request r, as built after the backend calls
student(r) ==
    [license_key |-> req[r].license_key,
     account_number |-> req[r].account_number,
     server |-> req[r].server,
     ea_id |-> req[r].license.ea_id,
     mentor_id |-> req[r].license.mentor_id,
     metaapi_account_id |-> accounts + 1,
     status |-> "active",
     registered_at |-> now,
     vps_status |-> <<[mt5_connected |-> TRUE, last_heartbeat |-> now]>>]

\* a registration that stores the student whatever the backend did
registeredAlways(r, outcome) == Append(students, student(r))

\* students.push(student), reached only when no backend call raised
registered(r, outcome) ==
    IF outcome = "ok" THEN Append(students, student(r)) ELSE students

\* POST /student/register after createAccount, deploy and waitConnected:
\* "ok", or "createFailed" (no account), or "connectFailed" (account created)
StudentRegisterResume(r, outcome) ==
    /\ req[r].op = "studentRegister"
    /\ accounts' = IF outcome = "createFailed" THEN accounts ELSE accounts + 1
    /\ students' = registered(r, outcome)
    /\ IF outcome = "ok"
       THEN Respond(r, [op |-> "studentRegister", key |-> req[r].license_key,
                        status |-> 200, state |-> "active", backend |-> outcome])
       ELSE Respond(r, [op |-> "studentRegister", key |-> req[r].license_key,
                        status |-> 500, backend |-> outcome])
    /\ UNCHANGED <<mentors, licenseKeys, signals, clients, readyState,
                   inbox, now, issued, due, sendFailed, orders, deactivated, events>>

\* the position in students of the record that find returns (the first match)
studentIndex(license_key) ==
    CHOOSE i \in 1..Len(students) :
        /\ students[i].license_key = license_key
        /\ \A j \in 1..(i - 1) : students[j].license_key # license_key

\* a start or stop that writes the new status on every student
setStatusOfAll(license_key, status, stamp) ==
    [i \in 1..Len(students) |-> [status |-> status] @@ stamp @@ students[i]]

\* student.status = ...; student.started_at / stopped_at = new Date()
setStatus(license_key, status, stamp) ==
    [students EXCEPT ![studentIndex(license_key)] =
        [status |-> status] @@ stamp @@ students[studentIndex(license_key)]]

\* POST /student/start
StudentStart(license_key) ==
    /\ LET base == [op |-> "studentStart", key |-> license_key]
       IN IF license_key = NoStr
          THEN lastResp' = base @@ [status |-> 400] /\ UNCHANGED students
          ELSE IF findStudent(license_key) = <<>>
          THEN lastResp' = base @@ [status |-> 404] /\ UNCHANGED students
          ELSE /\ students' = setStatus(license_key, "active", [started_at |-> now])
               /\ lastResp' = base @@ [status |-> 200, state |-> "active"]
    /\ UNCHANGED <<mentors, licenseKeys, signals, clients, readyState, inbox, req,
                   now, issued, due, sendFailed, orders, accounts, deactivated, events>>

\* POST /student/stop
StudentStop(license_key) ==
    /\ LET base == [op |-> "studentStop", key |-> license_key]
       IN IF license_key = NoStr
          THEN lastResp' = base @@ [status |-> 400] /\ UNCHANGED students
          ELSE IF findStudent(license_key) = <<>>
          THEN lastResp' = base @@ [status |-> 404] /\ UNCHANGED students
          ELSE /\ students' = setStatus(license_key, "stopped", [stopped_at |-> now])
               /\ lastResp' = base @@ [status |-> 200, state |-> "stopped"]
    /\ UNCHANGED <<mentors, licenseKeys, signals, clients, readyState, inbox, req,
                   now, issued, due, sendFailed, orders, accounts, deactivated, events>>

\* the heartbeat test alone, as the variant without an execution backend
\* reports it
vpsConnectedByHeartbeat(st) ==
    IF st.vps_status # <<>>
    THEN /\ now - st.vps_status[1].last_heartbeat < 60 * 1000
         /\ st.vps_status[1].mt5_connected
    ELSE FALSE

\* vps_connected || (student.metaapi_account_id ? true : false)
vpsConnected(st) ==
    \/ vpsConnectedByHeartbeat(st)
    \/ st.metaapi_account_id # 0

\* GET /student/status/:license_key; `at` is the time of the read
StudentStatus(license_key) ==
    /\ LET base == [op |-> "studentStatus", key |-> license_key, at |-> now]
           found == findStudent(license_key)
       IN IF found = <<>>
          THEN lastResp' = base @@ [status |-> 404]
          ELSE lastResp' = base @@ [status |-> 200,
                                    state |-> found[1].status,
                                    vps_connected |-> vpsConnected(found[1]),
                                    last_heartbeat |->
                                        IF found[1].vps_status # <<>>
                                        THEN found[1].vps_status[1].last_heartbeat
                                        ELSE now]
    /\ UNCHANGED <<mentors, licenseKeys, signals, students, clients, readyState,
                   inbox, req, now, issued, due, sendFailed, orders, accounts,
                   deactivated, events>>

\* process.env.VPS_API_KEY || 'vps-secret-key-change-me'
VPS_API_KEY == "vps-secret-key-change-me"

\* a filter that lets every student through
activeStudentsAll == students

\* students.filter(s => s.status === 'active')
activeStudents ==
    LET Active(st) == st.status = "active"
    IN SelectSeq(students, Active)

\* the response of GET /vps/students of a server whose secret is `secret`
vpsStudentsResponse(apiKey, secret) ==
    IF apiKey # secret
    THEN [status |-> 401, error |-> "Unauthorized"]
    ELSE [status |-> 200, students |-> activeStudents,
          count |-> Len(activeStudents)]

\* the response of GET /vps/students in the variant without an execution
\* backend, of a server whose secret is `secret`
vpsStudentsResponseDebug(apiKey, secret) ==
    IF apiKey # secret
    THEN [status |-> 401, error |-> "Unauthorized",
          debug |-> [received |-> apiKey,
                     expected |-> secret,
                     receivedLength |-> IF apiKey # "" THEN Len(apiKey) ELSE 0,
                     expectedLength |-> Len(secret)]]
    ELSE [status |-> 200, students |-> activeStudents,
          count |-> Len(activeStudents)]

\* GET /vps/students of that variant
VpsStudentsDebug(apiKey) ==
    /\ lastResp' = [op |-> "vpsStudents", apiKey |-> apiKey]
                      @@ vpsStudentsResponseDebug(apiKey, VPS_API_KEY)
    /\ UNCHANGED <<mentors, licenseKeys, signals, students, clients, readyState,
                   inbox, req, now, issued, due, sendFailed, orders, accounts,
                   deactivated, events>>

\* GET /vps/students
VpsStudents(apiKey) ==
    /\ lastResp' = [op |-> "vpsStudents", apiKey |-> apiKey]
                      @@ vpsStudentsResponse(apiKey, VPS_API_KEY)
    /\ UNCHANGED <<mentors, licenseKeys, signals, students, clients, readyState,
                   inbox, req, now, issued, due, sendFailed, orders, accounts,
                   deactivated, events>>

\* a heartbeat that is written on every student
heartbeatOfAll(license_key, mt5_connected) ==
    [i \in 1..Len(students) |->
        [students[i] EXCEPT !.vps_status =
            <<[mt5_connected |-> mt5_connected, last_heartbeat |-> now]>>]]

\* student.vps_status = { mt5_connected, last_heartbeat: new Date() }
heartbeat(license_key, mt5_connected) ==
    [students EXCEPT ![studentIndex(license_key)].vps_status =
        <<[mt5_connected |-> mt5_connected, last_heartbeat |-> now]>>]

\* POST /vps/heartbeat
VpsHeartbeat(apiKey, license_key, mt5_connected) ==
    /\ LET base == [op |-> "vpsHeartbeat", apiKey |-> apiKey, key |-> license_key,
                    mt5_connected |-> mt5_connected, at |-> now]
       IN IF apiKey # VPS_API_KEY
          THEN lastResp' = base @@ [status |-> 401] /\ UNCHANGED students
          ELSE IF findStudent(license_key) = <<>>
          THEN lastResp' = base @@ [status |-> 404] /\ UNCHANGED students
          ELSE /\ students' = heartbeat(license_key, mt5_connected)
               /\ lastResp' = base @@ [status |-> 200]
    /\ UNCHANGED <<mentors, licenseKeys, signals, clients, readyState, inbox, req,
                   now, issued, due, sendFailed, orders, accounts, deactivated, events>>

\* time passes: d milliseconds
Advance(d) ==
    /\ now' = now + d
    /\ UNCHANGED <<mentors, licenseKeys, signals, students, clients, readyState,
                   inbox, req, lastResp, issued, due, sendFailed, orders, accounts,
                   deactivated, events>>

\* POST /student/register of the variant without an execution backend: the
\* handler has no await and stores the student with status pending
StudentRegisterPending(license_key, account_number, password, server) ==
    /\ LET Usable(l) == l.key = license_key /\ l.active
           license == SelectSeq(licenseKeys, Usable)
           existing == findStudent(license_key)
           base == [op |-> "studentRegister", key |-> license_key,
                    account_number |-> account_number]
           answer(status) == /\ lastResp' = base @@ [status |-> status]
                             /\ UNCHANGED students
       IN IF license_key = NoStr \/ account_number = "" \/ password = "" \/ server = ""
          THEN answer(400)
          ELSE IF license = <<>> THEN answer(403)
          ELSE IF existing # <<>> THEN answer(409)
          ELSE /\ students' = Append(students,
                                [license_key |-> license_key,
                                 account_number |-> account_number,
                                 password |-> password,
                                 server |-> server,
                                 ea_id |-> license[1].ea_id,
                                 status |-> "pending",
                                 registered_at |-> now,
                                 vps_status |-> <<>>])
               /\ lastResp' = base @@ [status |-> 200, state |-> "pending"]
    /\ UNCHANGED <<mentors, licenseKeys, signals, clients, readyState, inbox, req,
                   now, issued, due, sendFailed, orders, accounts, deactivated, events>>

----------------------------------------------------------------------------
(* The license registry and the mentors that use it.  Two mentors register, *)
(* one after the other: ann@x with the id "ABC" she supplies, bob@x with a   *)
(* generated id.  License requests run concurrently.                        *)

AllIdle == \A r \in Slots : req[r] = Idle

NoneSuspended(op) == \A r \in Slots : req[r].op # op

RegisterAnn ==
    \E r \in Slots :
        /\ AllIdle /\ Len(mentors) < MaxMentors
        /\ MentorRegisterBegin(r, "Ann", "ann@x", <<"A","B","C">>)

RegisterBob ==
    \E r \in Slots :
        /\ AllIdle /\ Len(mentors) < MaxMentors
        /\ MentorRegisterBegin(r, "Bob", "bob@x", NoStr)

PickId == \E r \in Slots : MentorRegisterPickId(r, 0)

Insert == \E r \in Slots, ok \in BOOLEAN : MentorRegisterInsert(r, ok)

GenerateBegin ==
    \E r \in Slots, m \in MentorHeaders, ea \in EaIds :
        /\ NoneSuspended("mentorRegister")
        /\ Len(licenseKeys) + Suspended("generateLicense") < MaxLicenses
        /\ GenerateLicenseBegin(r, m, ea)

GenerateResume == \E r \in Slots, rnd \in RandomDraws : GenerateLicenseResume(r, rnd)

Validate == \E k \in KeyInputs : ValidateLicense(k)

DeactivateBegin ==
    \E r \in Slots, m \in MentorHeaders, k \in KeyInputs \ {NoStr} :
        /\ AllIdle
        /\ Len(deactivated) < MaxDeactivations
        /\ DeactivateLicenseBegin(r, m, k)

DeactivateResume == \E r \in Slots : DeactivateLicenseResume(r)

ListBegin ==
    \E r \in Slots, m \in MentorHeaders :
        /\ AllIdle
        /\ ListLicensesBegin(r, m)

ListResume == \E r \in Slots : ListLicensesResume(r)

NextLicense ==
    \/ RegisterAnn
    \/ RegisterBob
    \/ PickId
    \/ Insert
    \/ GenerateBegin
    \/ GenerateResume
    \/ Validate
    \/ DeactivateBegin
    \/ DeactivateResume
    \/ ListBegin
    \/ ListResume

SpecLicense == Init /\ [][NextLicense]_vars

----------------------------------------------------------------------------
(* Claims about the license registry *)

\* C1: no two records of the license registry have the same key, whatever
\* the interleaving of the issuances.
C1_KeysUnique ==
    \A i, j \in 1..Len(licenseKeys) :
        i # j => licenseKeys[i].key # licenseKeys[j].key

\* an issuance has succeeded for a mentor while another issuance of the same
\* mentor, which began while the first slot was taken, is still suspended
C1_Witness ==
    /\ Len(licenseKeys) = 1
    /\ lastResp.op = "generateLicense" /\ lastResp.status = 200
    /\ req[1] = Idle
    /\ req[2].op = "generateLicense" /\ req[2].mentor # <<>>
    /\ req[2].mentor[1].mentor_id = licenseKeys[1].mentor_id
    /\ req[2].ea_id # ""

\* the shape PREFIX-XXX-XXX of a key, the prefix being five digits
IsDigits(s) == \A i \in 1..Len(s) : s[i] \in Digit

IsUpperOrDigits(s) == \A i \in 1..Len(s) : s[i] \in UpperOrDigit

WellFormed(k) ==
    /\ Len(k) = 13
    /\ IsDigits(SubSeq(k, 1, 5))
    /\ SubSeq(k, 6, 6) = <<"-">>
    /\ IsUpperOrDigits(SubSeq(k, 7, 9))
    /\ SubSeq(k, 10, 10) = <<"-">>
    /\ IsUpperOrDigits(SubSeq(k, 11, 13))

Stored(k) == \E i \in 1..Len(licenseKeys) : licenseKeys[i].key = k

StoredActive(k) ==
    \E i \in 1..Len(licenseKeys) : licenseKeys[i].key = k /\ licenseKeys[i].active

\* C8: a validation answers (status 200, never an error) valid=true exactly
\* for a well-formed, stored, active key; otherwise valid=false, with the
\* format reason for every malformed key, stored or not (the required
\* reason when no key is given), the not-found reason for a well-formed key
\* that is not stored and the inactive reason for a stored inactive one.
C8_ValidateContract ==
    lastResp.op = "validateLicense" =>
        LET k == lastResp.key
        IN /\ lastResp.status = 200
           /\ lastResp.valid <=> (WellFormed(k) /\ StoredActive(k))
           /\ lastResp.valid => lastResp.reason = "Valid license"
           /\ k = NoStr => lastResp.reason = "License key is required"
           /\ (k # NoStr /\ ~WellFormed(k)) => lastResp.reason = "Invalid key format"
           /\ (WellFormed(k) /\ ~Stored(k)) => lastResp.reason = "License key not found"
           /\ (WellFormed(k) /\ Stored(k) /\ ~StoredActive(k))
                 => lastResp.reason = "License key is inactive"

\* a stored, active key that is malformed has been reported as malformed
C8_Witness ==
    /\ lastResp.op = "validateLicense"
    /\ StoredActive(lastResp.key)
    /\ lastResp.reason = "Invalid key format"

\* C9: every key the registry stores passes the format check of
\* validateLicense.
C9_StoredKeysPassFormat ==
    \A i \in 1..Len(licenseKeys) : regexTest(licenseKeys[i].key)

\* C10: a deactivation by a validated mentor answers 404 for a key that is not
\* stored and 403 for a license of another mentor, and leaves the registry as
\* it was in both cases.
C10_DeactivateRefusals ==
    [][\A r \in Slots :
          (req[r].op = "deactivateLicense" /\ req'[r] = Idle /\ req[r].mentor # <<>>)
          => LET k == req[r].licenseKey
                 caller == req[r].mentor[1].mentor_id
             IN /\ ~Stored(k) => (lastResp'.status = 404 /\ licenseKeys' = licenseKeys)
                /\ (\E i \in 1..Len(licenseKeys) :
                       licenseKeys[i].key = k /\ licenseKeys[i].mentor_id # caller)
                   => (lastResp'.status = 403 /\ licenseKeys' = licenseKeys)]_vars

\* a mentor has been refused the license of another mentor, which is still active
C10_Witness ==
    /\ lastResp.op = "deactivateLicense" /\ lastResp.status = 403
    /\ StoredActive(lastResp.key)

\* the keys whose deactivation by their owner has reported success
Deactivated == {deactivated[i] : i \in 1..Len(deactivated)}

\* C11: once a deactivation of a key by its owner has reported success, every
\* later validation of that key answers valid=false with the inactive reason.
C11_InactiveAfterDeactivate ==
    (lastResp.op = "validateLicense" /\ lastResp.key \in Deactivated)
        => (~lastResp.valid /\ lastResp.reason = "License key is inactive")

\* what holds of it: the validation never answers valid=true, and gives the
\* inactive reason when the key has the five-digit prefix of the format check
NeverValidAfterDeactivate ==
    (lastResp.op = "validateLicense" /\ lastResp.key \in Deactivated)
        => /\ ~lastResp.valid
           /\ WellFormed(lastResp.key) => lastResp.reason = "License key is inactive"

\* a well-formed key has been deactivated, another license has been issued
\* since, and a validation of the key has answered
NeverValidAfterDeactivateWitness ==
    /\ lastResp.op = "validateLicense" /\ lastResp.key \in Deactivated
    /\ WellFormed(lastResp.key)
    /\ Len(licenseKeys) = 2 /\ licenseKeys[1].key = lastResp.key

\* the mentor of request r owns the stored license with key k
CallerOwns(r, k) ==
    \E i \in 1..Len(licenseKeys) :
        /\ licenseKeys[i].key = k
        /\ licenseKeys[i].mentor_id = req[r].mentor[1].mentor_id

\* C12: a deactivation, by its owner, of a license whose deactivation has
\* already reported success reports success again and leaves the registry
\* as it was.
C12_DeactivateIdempotent ==
    [][\A r \in Slots :
          (/\ req[r].op = "deactivateLicense" /\ req'[r] = Idle
           /\ req[r].mentor # <<>>
           /\ req[r].licenseKey \in Deactivated
           /\ CallerOwns(r, req[r].licenseKey))
          => /\ lastResp'.op = "deactivateLicense" /\ lastResp'.status = 200
             /\ lastResp'.key = req[r].licenseKey
             /\ licenseKeys' = licenseKeys]_vars

\* the same key has been deactivated with success twice
C12_Witness ==
    /\ Len(deactivated) = 2 /\ deactivated[1] = deactivated[2]
    /\ lastResp.op = "deactivateLicense" /\ lastResp.status = 200
    /\ ~StoredActive(lastResp.key)

\* C13: no step removes a license record or changes its key, mentor_id or
\* ea_id, and no step makes an inactive license active.
C13_LicenseLifecycle ==
    [][/\ Len(licenseKeys') >= Len(licenseKeys)
       /\ \A i \in 1..Len(licenseKeys) :
             /\ licenseKeys'[i].key = licenseKeys[i].key
             /\ licenseKeys'[i].mentor_id = licenseKeys[i].mentor_id
             /\ licenseKeys'[i].ea_id = licenseKeys[i].ea_id
             /\ licenseKeys'[i].active => licenseKeys[i].active]_vars

\* a license has been deactivated, and a license issued after it is active
C13_Witness ==
    /\ Len(licenseKeys) = 2
    /\ ~licenseKeys[1].active /\ licenseKeys[2].active
    /\ licenseKeys[1].key \in Deactivated
    /\ lastResp.op = "generateLicense" /\ lastResp.status = 200

\* C14: the list a validated mentor is answered holds every record of the
\* registry whose mentor_id is the mentor's, once each and in the order of the
\* registry, and no record of another mentor.
C14_ListOwnLicenses ==
    [][\A r \in Slots :
          (req[r].op = "licenses" /\ req'[r] = Idle /\ req[r].mentor # <<>>)
          => LET M == req[r].mentor[1].mentor_id
                 got == lastResp'.licenses
                 own == {i \in 1..Len(licenseKeys) : licenseKeys[i].mentor_id = M}
             IN /\ lastResp'.op = "licenses" /\ lastResp'.status = 200
                /\ Len(got) = Cardinality(own)
                /\ \A i \in own : \E j \in 1..Len(got) : got[j] = licenseKeys[i]
                /\ \A j \in 1..Len(got) :
                      /\ got[j].mentor_id = M
                      /\ \E i \in own : got[j] = licenseKeys[i]]_vars

\* a mentor has been listed its one license while the registry holds a
\* license of another mentor
C14_Witness ==
    /\ lastResp.op = "licenses" /\ lastResp.status = 200
    /\ Len(lastResp.licenses) = 1
    /\ Len(licenseKeys) = 2
    /\ licenseKeys[1].mentor_id # licenseKeys[2].mentor_id

----------------------------------------------------------------------------
(* Fan-out: one mentor ingests signals, concurrently, while connections open *)
(* and close and the clock advances.                                        *)

SignalBody(ea_id, type) ==
    [ea_id |-> ea_id, type |-> type, symbol |-> <<"e","u","r","u","s","d">>,
     sl |-> <<1>>, tp |-> <<2>>]

\* at most one connection's send raises during a broadcast
FailChoices == {{}} \cup {{c} : c \in Conns}

RegisterFirst ==
    \E r \in Slots :
        /\ AllIdle /\ mentors = <<>>
        /\ MentorRegisterBegin(r, "Bob", "bob@x", NoStr)

InsertOk == \E r \in Slots : MentorRegisterInsert(r, TRUE)

IngestBegin ==
    \E r \in Slots, m \in MentorIds :
        /\ NoneSuspended("mentorRegister")
        /\ Len(issued) + Suspended("receiveSignal") < MaxIngest
        /\ ReceiveSignalBegin(r, m, SignalBody("EA1", <<"b","u","y">>))

IngestResume == \E r \in Slots, failing \in FailChoices : ReceiveSignalResume(r, failing)

NextConnection ==
    \E c \in Conns :
        /\ \A d \in Conns : d < c => readyState[d] # 0
        /\ Connect(c)

Closing == \E c \in Conns : StartClosing(c)

Close == \E c \in Conns : OnClose(c)

Error == \E c \in Conns : OnError(c)

ClockTick == now < StartClock + MaxClock /\ Tick

NextFanout ==
    \/ RegisterFirst
    \/ PickId
    \/ InsertOk
    \/ IngestBegin
    \/ IngestResume
    \/ NextConnection
    \/ Closing
    \/ Close
    \/ Error
    \/ ClockTick

SpecFanout == Init /\ [][NextFanout]_vars

(* Claims about the fan-out *)

\* the live pushes of signal number s that connection c has been sent
PushCount(c, s) ==
    Cardinality({i \in 1..Len(inbox[c]) :
                    inbox[c][i].type = "signal" /\ inbox[c][i].data.seq = s})

\* C4: a connection that is open when a signal is broadcast is sent exactly
\* one live push of that signal (a connection whose own send raised aside).
C4_ExactlyOnePush ==
    \A c \in Conns : \A s \in due[c] :
        <<c, s>> \notin sendFailed => PushCount(c, s) = 1

\* the same, for the signals during whose broadcast no send raised: this
\* holds, the push is missed only when forEach is aborted
ExactlyOnePushUnlessAborted ==
    \A c \in Conns : \A s \in due[c] :
        (\A d \in Conns : <<d, s>> \notin sendFailed) => PushCount(c, s) = 1

\* C6: when the send to one open connection raises, every other connection
\* that is open at that broadcast is still sent the signal.
C6_OthersStillReceive ==
    \A c \in Conns : \A s \in due[c] :
        <<c, s>> \notin sendFailed => PushCount(c, s) >= 1

RECURSIVE Number(_)
\* the number a string of digits denotes
Number(str) ==
    IF str = <<>> THEN 0
    ELSE 10 * Number(SubSeq(str, 1, Len(str) - 1))
         + (CHOOSE d \in 0..9 : DigitChar(d) = str[Len(str)])

\* C7: every signal id is different from, and ordered after, every id
\* assigned before it.
C7_IdsIncrease ==
    \A i, j \in 1..Len(issued) :
        i < j => Number(issued[i]) < Number(issued[j])

\* C17: a connection is sent a push only in the step that broadcasts the
\* pushed signal, and only if it is open (readyState 1, in the Set) in that
\* step; the only other message it is ever sent is the snapshot at its
\* connect, which holds the 20 most recent signals of the log at most.  So a
\* signal broadcast while the connection was not open reaches it by no push.
C17_PushOnlyToOpen ==
    [][\A c \in Conns :
          inbox'[c] # inbox[c] =>
              LET msg == inbox'[c][Len(inbox'[c])]
              IN /\ inbox'[c] = Append(inbox[c], msg)
                 /\ IF readyState[c] = 0
                    THEN /\ readyState'[c] = 1
                         /\ msg.type = "initial"
                         /\ Len(msg.signals) <= 20
                         /\ \A i \in 1..Len(msg.signals) : msg.signals[i] = signals[i]
                    ELSE /\ readyState[c] = 1
                         /\ \E i \in 1..Len(clients) : clients[i] = c
                         /\ msg.type = "signal"
                         /\ signals' # signals /\ msg.data = signals'[1]
                         /\ msg.data.seq = Len(issued) + 1]_vars

\* connection 1 was open for signal 1 and closed before signal 2, of which it
\* has no push; connection 2 opened after signal 1, which it has in its
\* snapshot and not as a push, and was pushed signal 2
C17_Witness ==
    /\ readyState[1] = 3
    /\ PushCount(1, 1) = 1 /\ PushCount(1, 2) = 0
    /\ readyState[2] = 1
    /\ PushCount(2, 1) = 0 /\ PushCount(2, 2) = 1
    /\ Len(inbox[2][1].signals) = 1 /\ inbox[2][1].signals[1].seq = 1

\* C18: a connection whose close or error event has been handled is not in
\* the Set; the Set holds, once each, exactly the connections that were made
\* and have had neither event, also after an error followed by a close.
C18_LiveSet ==
    /\ \A c \in Conns : events[c] # <<>> => c \notin Range(clients)
    /\ \A c \in Range(clients) : readyState[c] # 0 /\ events[c] = <<>>
    /\ \A c \in Conns : (readyState[c] # 0 /\ events[c] = <<>>) => c \in Range(clients)
    /\ \A i, j \in 1..Len(clients) : i # j => clients[i] # clients[j]

\* connection 1 has had an error and then a close, connection 2 neither
C18_Witness ==
    /\ events[1] = <<"error", "close">>
    /\ events[2] = <<>>
    /\ clients = <<2>>

----------------------------------------------------------------------------
(* The log: one mentor ingests signals one after the other, for two EAs in *)
(* turn.                                                                    *)

IngestInTurn(max) ==
    \E r \in Slots, m \in MentorIds :
        /\ AllIdle
        /\ Len(issued) < max
        /\ ReceiveSignalBegin(r, m,
              SignalBody(IF Len(issued) % 2 = 0 THEN "EA1" ELSE "EA2", <<"s","e","l","l">>))

IngestLog == IngestInTurn(MaxIngestLog)

IngestDone == \E r \in Slots : ReceiveSignalResume(r, {})

NextLog ==
    \/ RegisterFirst
    \/ PickId
    \/ InsertOk
    \/ IngestLog
    \/ IngestDone

SpecLog == Init /\ [][NextLog]_vars

(* Claims about the log *)

\* C3: after N ingests the log holds the min(N, 100) signals ingested last,
\* newest first, and never more than 100; GET /signals returns that log and
\* GET /signals/:ea_id its entries for the EA, so that neither reaches a
\* signal older than the 100 most recent.
C3_LogIsMostRecent ==
    /\ Len(signals) = Min(Len(issued), 100)
    /\ \A i \in 1..Len(signals) : signals[i].seq = Len(issued) - i + 1
    /\ \A ea \in {"EA1", "EA2"} :
          LET got == signalsByEa(ea)
          IN /\ \A i \in 1..Len(got) :
                   got[i].ea_id = ea /\ got[i].seq > Len(issued) - 100
             /\ \A i, j \in 1..Len(got) : i < j => got[i].seq > got[j].seq
             /\ Len(got) = Cardinality({i \in 1..Len(signals) : signals[i].ea_id = ea})

\* more than 100 signals have been ingested and the last one has been answered
C3_Witness ==
    /\ Len(issued) > 101
    /\ Len(signals) = 100
    /\ AllIdle
    /\ lastResp.op = "receiveSignal" /\ lastResp.status = 200
    /\ Len(signalsByEa("EA1")) = 50

----------------------------------------------------------------------------
(* The snapshot: as the log, with one connection that opens and closes at   *)
(* any moment.                                                              *)

IngestSnap == IngestInTurn(MaxIngestSnap)

ConnectFirst == Connect(1)

CloseFirst == OnClose(1)

NextSnap ==
    \/ RegisterFirst
    \/ PickId
    \/ InsertOk
    \/ IngestSnap
    \/ IngestDone
    \/ ConnectFirst
    \/ CloseFirst

SpecSnap == Init /\ [][NextSnap]_vars

(* Claims about the snapshot *)

\* C5: a connection is sent one snapshot, as its first message and before
\* any live push, and the snapshot is the min(20, log length) signals
\* ingested last before the connection opened, newest first.
C5_SnapshotOnConnect ==
    /\ [](\A c \in Conns :
             readyState[c] # 0 =>
                 /\ Len(inbox[c]) >= 1
                 /\ inbox[c][1].type = "initial"
                 /\ \A i \in 2..Len(inbox[c]) : inbox[c][i].type = "signal")
    /\ [][\A c \in Conns :
             (readyState[c] = 0 /\ readyState'[c] = 1) =>
                 /\ Len(inbox'[c]) = 1
                 /\ inbox'[c][1].type = "initial"
                 /\ LET snap == inbox'[c][1].signals
                    IN /\ Len(snap) = Min(20, Len(signals))
                       /\ \A i \in 1..Len(snap) :
                             /\ snap[i] = signals[i]
                             /\ snap[i].seq = Len(issued) - i + 1]_vars

\* a connection that opened on a log of more than 20 signals holds its
\* snapshot of 20 and a live push after it
C5_Witness ==
    /\ readyState[1] = 1
    /\ Len(inbox[1]) >= 2
    /\ Len(inbox[1][1].signals) = 20
    /\ inbox[1][1].signals[20].seq > 1
    /\ inbox[1][2].type = "signal"

----------------------------------------------------------------------------
(* Students: one mentor, one license, registrations that run concurrently.  *)

GenerateOne ==
    \E r \in Slots, m \in MentorIds :
        /\ AllIdle
        /\ Len(licenseKeys) < 1
        /\ GenerateLicenseBegin(r, m, "EA1")

GenerateFirstDraw == \E r \in Slots : GenerateLicenseResume(r, <<0,0,0,0,0,0>>)

RegisterStudentBegin ==
    \E r \in Slots, k \in KeyInputs, acc \in {"", "5001"} :
        /\ NoneSuspended("mentorRegister") /\ NoneSuspended("generateLicense")
        /\ Len(students) + Suspended("studentRegister") < MaxStudents
        /\ accounts + Suspended("studentRegister") < MaxAccounts
        /\ StudentRegisterBegin(r, k, acc, "pw", "srv")

RegisterStudentResume ==
    \E r \in Slots, outcome \in {"ok", "createFailed", "connectFailed"} :
        StudentRegisterResume(r, outcome)

DeactivateOnce ==
    \E r \in Slots, m \in MentorIds, k \in KeyInputs \ {NoStr} :
        /\ AllIdle
        /\ deactivated = <<>>
        /\ DeactivateLicenseBegin(r, m, k)

NextStudents ==
    \/ RegisterFirst
    \/ PickId
    \/ InsertOk
    \/ GenerateOne
    \/ GenerateFirstDraw
    \/ RegisterStudentBegin
    \/ RegisterStudentResume
    \/ DeactivateOnce
    \/ DeactivateResume

SpecStudents == Init /\ [][NextStudents]_vars

(* Claims about the student registry *)

\* C2: the student registry never holds two records with the same
\* license_key.
C2_OneStudentPerLicense ==
    \A i, j \in 1..Len(students) :
        i # j => students[i].license_key # students[j].license_key

\* a step in which a registration of slot r goes on to the backend
ReachesBackend(r) ==
    /\ req[r] = Idle
    /\ req'[r].op = "studentRegister"

\* a step in which a registration is answered before it reaches the backend
AnsweredAtOnce ==
    /\ req' = req
    /\ lastResp' # lastResp
    /\ lastResp'.op = "studentRegister"

\* a step in which the registration of slot r is answered after the backend
AnsweredAfterBackend(r) ==
    /\ req[r].op = "studentRegister"
    /\ req'[r] = Idle

HasStudent(k) == \E i \in 1..Len(students) : students[i].license_key = k

\* C19: a complete registration for an active license that has a student is
\* answered 409, without going on to the backend, and changes neither the
\* students nor the licenses nor the backend; a registration that succeeds is answered with status active and
\* stores one student, of status active, for its license.
C19_ConflictOnSecond ==
    [][/\ (/\ AnsweredAtOnce
           /\ lastResp'.key # NoStr /\ lastResp'.account_number # ""
           /\ StoredActive(lastResp'.key)
           /\ HasStudent(lastResp'.key))
          => /\ lastResp'.status = 409
             /\ students' = students
             /\ licenseKeys' = licenseKeys
             /\ accounts' = accounts
       /\ \A r \in Slots :
             ReachesBackend(r) => ~HasStudent(req'[r].license_key)
       /\ \A r \in Slots :
             (AnsweredAfterBackend(r) /\ lastResp'.status = 200)
             => /\ lastResp'.state = "active"
                /\ Len(students') = Len(students) + 1
                /\ SubSeq(students', 1, Len(students)) = students
                /\ students'[Len(students')].license_key = req[r].license_key
                /\ students'[Len(students')].status = "active"]_vars

\* the license has one student, registered with success, and a second
\* registration for it has been answered 409
C19_Witness ==
    /\ lastResp.op = "studentRegister" /\ lastResp.status = 409
    /\ StoredActive(lastResp.key)
    /\ Len(students) = 1 /\ students[1].license_key = lastResp.key
    /\ students[1].status = "active"
    /\ AllIdle

\* The variant without an execution backend: one mentor, one license,
\* registrations one after the other, a deactivation.
RegisterPending ==
    \E k \in KeyInputs, acc \in {"", "5001"} :
        /\ AllIdle
        /\ Len(students) < MaxStudents
        /\ StudentRegisterPending(k, acc, "pw", "srv")

ListActiveDebug ==
    \E a \in {"", "wrong-key", VPS_API_KEY} : AllIdle /\ VpsStudentsDebug(a)

NextPending ==
    \/ RegisterFirst
    \/ PickId
    \/ InsertOk
    \/ GenerateOne
    \/ GenerateFirstDraw
    \/ RegisterPending
    \/ DeactivateOnce
    \/ DeactivateResume
    \/ ListActiveDebug

SpecPending == Init /\ [][NextPending]_vars

\* in that variant: a complete registration for an active license is answered
\* 409 and stores nothing when the license has a student, and is answered 200
\* with status pending and stores one student of status pending otherwise
PendingConflictOnSecond ==
    [][(/\ lastResp' # lastResp
        /\ lastResp'.op = "studentRegister"
        /\ lastResp'.key # NoStr /\ lastResp'.account_number # ""
        /\ StoredActive(lastResp'.key))
       => IF HasStudent(lastResp'.key)
          THEN lastResp'.status = 409 /\ students' = students
          ELSE /\ lastResp'.status = 200 /\ lastResp'.state = "pending"
               /\ Len(students') = Len(students) + 1
               /\ SubSeq(students', 1, Len(students)) = students
               /\ students'[Len(students')].license_key = lastResp'.key
               /\ students'[Len(students')].status = "pending"]_vars

\* there, the license has one pending student and a second registration for
\* it has been answered 409
PendingConflictWitness ==
    /\ lastResp.op = "studentRegister" /\ lastResp.status = 409
    /\ StoredActive(lastResp.key)
    /\ Len(students) = 1 /\ students[1].status = "pending"

\* C20: a registration during which a backend call fails is answered 500 and
\* leaves the students as they were; a registration is answered 409 only for
\* a license that has a student, so never on account of a failed one.
C20_FailureIsAtomic ==
    /\ [][\A r \in Slots :
             (AnsweredAfterBackend(r) /\ lastResp'.backend # "ok")
             => (lastResp'.status = 500 /\ students' = students)]_vars
    /\ []((lastResp.op = "studentRegister" /\ lastResp.status = 409)
             => HasStudent(lastResp.key))

\* a registration failed after the backend had created its account, and a
\* later registration for the same license has succeeded
C20_Witness ==
    /\ lastResp.op = "studentRegister" /\ lastResp.status = 200
    /\ Len(students) = 1 /\ students[1].license_key = lastResp.key
    /\ students[1].metaapi_account_id = 2
    /\ AllIdle

----------------------------------------------------------------------------
(* Ingest of requests of every shape: one mentor with one license, one      *)
(* student registered for it, one connection; requests with any of the      *)
(* required fields absent, or with sl or tp zero, one after the other.      *)

Bodies ==
    [ea_id : {"", "EA1"},
     type : {NoStr, <<"b","u","y">>},
     symbol : {NoStr, <<"e","u","r","u","s","d">>},
     sl : {<<>>, <<0>>, <<1>>},
     tp : {<<>>, <<2>>}]

RegisterOneStudent ==
    \E r \in Slots, k \in KeyInputs \ {NoStr} :
        /\ AllIdle
        /\ students = <<>>
        /\ accounts < 1
        /\ StudentRegisterBegin(r, k, "5001", "pw", "srv")

RegisterOneStudentOk == \E r \in Slots : StudentRegisterResume(r, "ok")

IngestAny ==
    \E r \in Slots, m \in MentorIds, body \in Bodies :
        /\ AllIdle
        /\ Len(issued) < MaxIngestAny
        /\ ReceiveSignalBegin(r, m, body)

Exec == \E r \in Slots, outcome \in {"placed", "failed"} : ReceiveSignalExec(r, outcome)

NextIngest ==
    \/ RegisterFirst
    \/ PickId
    \/ InsertOk
    \/ GenerateOne
    \/ GenerateFirstDraw
    \/ RegisterOneStudent
    \/ RegisterOneStudentOk
    \/ ConnectFirst
    \/ IngestAny
    \/ IngestDone
    \/ Exec

SpecIngest == Init /\ [][NextIngest]_vars

(* Claims about the validation of an ingest *)

\* the required fields that a request body does not have
MissingFields(body) ==
    {f \in {"ea_id"} : body.ea_id = ""}
    \cup {f \in {"type"} : body.type = NoStr}
    \cup {f \in {"symbol"} : body.symbol = NoStr}
    \cup {f \in {"sl"} : body.sl = <<>>}
    \cup {f \in {"tp"} : body.tp = <<>>}

\* C15: an ingest of a validated mentor whose body lacks a required field is
\* answered 400 and appends no signal, pushes nothing to any connection and
\* places no order, neither in that step nor later (the request is over).
C15_InvalidIngestNoEffect ==
    [][\A r \in Slots :
          (/\ req[r].op = "receiveSignal" /\ req[r].pc = "validated"
           /\ req'[r] # req[r]
           /\ req[r].mentor # <<>>
           /\ MissingFields(req[r].body) # {})
          => /\ lastResp'.op = "receiveSignal" /\ lastResp'.status = 400
             /\ req'[r] = Idle
             /\ signals' = signals /\ issued' = issued
             /\ inbox' = inbox
             /\ orders' = orders]_vars

\* with a student to execute for and a connection open, a first signal was
\* appended, pushed and executed, and a request that lacks a field has then
\* been refused with none of that
C15_Witness ==
    /\ lastResp.op = "receiveSignal" /\ lastResp.status = 400
    /\ MissingFields(lastResp.body) # {}
    /\ readyState[1] = 1 /\ Len(inbox[1]) = 2
    /\ Len(students) = 1
    /\ Len(signals) = 1 /\ Cardinality(orders) = 1

\* C16: the fields that a 400 answer of an ingest lists are exactly the
\* required fields that the request does not have.
C16_ListsExactlyMissing ==
    (lastResp.op = "receiveSignal" /\ lastResp.status = 400)
        => Range(lastResp.required) = MissingFields(lastResp.body)

----------------------------------------------------------------------------
(* Heartbeats: one mentor, two licenses, a student for each; heartbeats and *)
(* status reads while a little less than a minute, or a minute, passes.     *)

ApiKeys == {"", "wrong-key", VPS_API_KEY}

Jumps == {59999, 60000}

GenerateForStudents ==
    \E r \in Slots, m \in MentorIds :
        /\ AllIdle
        /\ Len(licenseKeys) < MaxLicenses
        /\ GenerateLicenseBegin(r, m, "EA1")

RegisterEachStudent ==
    \E r \in Slots, k \in KeyInputs \ {NoStr} :
        /\ AllIdle
        /\ Stored(k) /\ ~HasStudent(k)
        /\ StudentRegisterBegin(r, k, "5001", "pw", "srv")

Beat ==
    \E a \in ApiKeys, k \in KeyInputs \ {NoStr}, f \in BOOLEAN :
        VpsHeartbeat(a, k, f)

Status == \E k \in KeyInputs \ {NoStr} : StudentStatus(k)

ClockJump ==
    \E d \in Jumps :
        /\ now + d <= StartClock + MaxElapsed
        /\ Advance(d)

NextBeat ==
    \/ RegisterFirst
    \/ PickId
    \/ InsertOk
    \/ GenerateForStudents
    \/ GenerateResume
    \/ RegisterEachStudent
    \/ RegisterOneStudentOk
    \/ Beat
    \/ Status
    \/ ClockJump

SpecBeat == Init /\ [][NextBeat]_vars

(* Claims about status and heartbeat *)

\* a step that answers a status read of a student
StatusRead ==
    /\ lastResp' # lastResp
    /\ lastResp'.op = "studentStatus" /\ lastResp'.status = 200
    /\ students' = students

\* the student that the status read of this step is about
ReadStudent == students[studentIndex(lastResp'.key)]

\* C21: a status read reports connected = true exactly when the student has a
\* last heartbeat, less than 60 seconds have passed since it and its last
\* reported flag is true.
C21_ConnectedIff ==
    [][StatusRead =>
          (lastResp'.vps_connected <=>
              /\ ReadStudent.vps_status # <<>>
              /\ now - ReadStudent.vps_status[1].last_heartbeat < 60000
              /\ ReadStudent.vps_status[1].mt5_connected)]_vars

\* C22: a status read made less than 60 seconds after a heartbeat that
\* reported connected=true answers connected=true, and a status read made 60
\* seconds or more after the last heartbeat answers connected=false; the
\* answer follows from the stored heartbeat and the clock alone.
C22_FreshThenStale ==
    [][StatusRead =>
          LET last == ReadStudent.vps_status[1]
          IN /\ (last.mt5_connected /\ now - last.last_heartbeat < 60000)
                   => lastResp'.vps_connected
             /\ now - last.last_heartbeat >= 60000 => ~lastResp'.vps_connected]_vars

\* C23: a heartbeat with the agent key, for a key that has a student, is
\* answered 200 and sets that student's last_heartbeat to the current time and
\* its flag to the reported one; the student's other fields, the other
\* students and the rest of the state stay as they were.  For a key with no
\* student it is answered 404 and changes nothing.
C23_HeartbeatFrame ==
    [][(/\ lastResp' # lastResp
        /\ lastResp'.op = "vpsHeartbeat"
        /\ lastResp'.apiKey = VPS_API_KEY)
       => /\ UNCHANGED <<mentors, licenseKeys, signals, clients, inbox, orders>>
          /\ IF HasStudent(lastResp'.key)
             THEN LET i == studentIndex(lastResp'.key)
                  IN /\ lastResp'.status = 200
                     /\ Len(students') = Len(students)
                     /\ \A j \in 1..Len(students) : j # i => students'[j] = students[j]
                     /\ students'[i].vps_status =
                            <<[mt5_connected |-> lastResp'.mt5_connected,
                               last_heartbeat |-> now]>>
                     /\ [students'[i] EXCEPT !.vps_status = students[i].vps_status]
                            = students[i]
             ELSE /\ lastResp'.status = 404
                  /\ students' = students]_vars

\* a minute after two students registered, a heartbeat has reported the
\* first of them disconnected; the second holds its earlier heartbeat
C23_Witness ==
    /\ lastResp.op = "vpsHeartbeat" /\ lastResp.status = 200
    /\ lastResp.at > StartClock
    /\ Len(students) = 2
    /\ lastResp.key = students[1].license_key
    /\ students[1].vps_status = <<[mt5_connected |-> FALSE, last_heartbeat |-> lastResp.at]>>
    /\ students[2].vps_status[1].last_heartbeat < lastResp.at
    /\ students[1].status = "active"

\* what holds of C22: a read less than 60 seconds after a heartbeat that
\* reported connected=true answers connected=true
FreshReadsConnected ==
    [][StatusRead =>
          LET last == ReadStudent.vps_status[1]
          IN (last.mt5_connected /\ now - last.last_heartbeat < 60000)
                => lastResp'.vps_connected]_vars

----------------------------------------------------------------------------
(* Start, stop and the list of active students: two mentors, two licenses   *)
(* of either, a student for each license.                                   *)

Start == \E k \in KeyInputs : StudentStart(k)

Stop == \E k \in KeyInputs : StudentStop(k)

ListActive == \E a \in ApiKeys : VpsStudents(a)

NextOps ==
    \/ RegisterAnn
    \/ RegisterBob
    \/ PickId
    \/ InsertOk
    \/ GenerateForStudents
    \/ GenerateResume
    \/ RegisterEachStudent
    \/ RegisterOneStudentOk
    \/ Start
    \/ Stop
    \/ ListActive

SpecOps == Init /\ [][NextOps]_vars

(* Claims about start, stop and the list *)

\* the step answers a start or stop request that names a key
StartOrStop(op) ==
    /\ lastResp' # lastResp
    /\ lastResp'.op = op
    /\ lastResp'.key # NoStr

\* the step sets the status of the student of key k, whatever it was, and
\* leaves the other students as they were, or answers 404 and changes no
\* student when the key has none
SetsStatus(k, status) ==
    IF HasStudent(k)
    THEN /\ lastResp'.status = 200 /\ lastResp'.state = status
         /\ Len(students') = Len(students)
         /\ students'[studentIndex(k)].status = status
         /\ students'[studentIndex(k)].license_key = k
         /\ \A j \in 1..Len(students) :
               j # studentIndex(k) => students'[j] = students[j]
    ELSE /\ lastResp'.status = 404
         /\ students' = students

\* C24: Start sets the student's status to active and Stop sets it to
\* stopped, from any status, and so also when the status is already the one
\* asked for; for a key with no student both answer 404 and change no student.
C24_StartStop ==
    [][/\ StartOrStop("studentStart") => SetsStatus(lastResp'.key, "active")
       /\ StartOrStop("studentStop") => SetsStatus(lastResp'.key, "stopped")]_vars

\* the first student, stopped earlier, has been started; the second student
\* is stopped
C24_Witness ==
    /\ lastResp.op = "studentStart" /\ lastResp.status = 200
    /\ Len(students) = 2
    /\ lastResp.key = students[1].license_key
    /\ students[1].status = "active"
    /\ "stopped_at" \in DOMAIN students[1]
    /\ students[2].status = "stopped"

\* C27: the list answered to the agent holds exactly the students whose
\* status is active when it is asked for, once each and in the order of the
\* registry; the students an ingest of a mentor executes for are the active
\* students of that mentor.
C27_ActiveStudents ==
    /\ [][(/\ lastResp' # lastResp
            /\ lastResp'.op = "vpsStudents"
            /\ lastResp'.apiKey = VPS_API_KEY)
           => LET got == lastResp'.students
                  act == {i \in 1..Len(students) : students[i].status = "active"}
              IN /\ lastResp'.status = 200
                 /\ lastResp'.count = Cardinality(act)
                 /\ Len(got) = Cardinality(act)
                 /\ \A i \in act : \E j \in 1..Len(got) : got[j] = students[i]
                 /\ \A j \in 1..Len(got) :
                       /\ got[j].status = "active"
                       /\ \E i \in act : got[j] = students[i]]_vars
    /\ [](\A mid \in MentorIds :
             Range(mentorStudents(mid)) =
                 {students[i] : i \in {j \in 1..Len(students) :
                                          /\ students[j].mentor_id = mid
                                          /\ students[j].status = "active"}})

\* of two students of different mentors the second has been stopped, and the
\* agent has been listed the first alone
C27_Witness ==
    /\ lastResp.op = "vpsStudents" /\ lastResp.status = 200
    /\ lastResp.count = 1
    /\ Len(students) = 2
    /\ students[1].mentor_id # students[2].mentor_id
    /\ students[2].status = "stopped"
    /\ lastResp.students = <<students[1]>>

----------------------------------------------------------------------------
(* Execution: one mentor, two licenses, a student for each, a connection;   *)
(* signals are ingested one after the other and executed for the students,  *)
(* each backend call succeeding, failing or never returning.  An enabled    *)
(* step is eventually taken.                                                *)

IngestForStudents ==
    \E r \in Slots, m \in MentorIds, type \in {<<"b","u","y">>, <<"s","e","l","l">>} :
        /\ AllIdle
        /\ Len(issued) < MaxIngestExec
        /\ ReceiveSignalBegin(r, m, SignalBody("EA1", type))

ExecAny ==
    \E r \in Slots, outcome \in {"placed", "failed", "hangs"} :
        ReceiveSignalExec(r, outcome)

NextExec ==
    \/ RegisterFirst
    \/ PickId
    \/ InsertOk
    \/ GenerateForStudents
    \/ GenerateResume
    \/ RegisterEachStudent
    \/ RegisterOneStudentOk
    \/ ConnectFirst
    \/ IngestForStudents
    \/ IngestDone
    \/ ExecAny

SpecExec == Init /\ [][NextExec]_vars /\ WF_vars(NextExec)

(* Claims about the execution *)

\* the order call made for the student of key k and signal number s
CallsFor(k, s) == {o \in orders : o.license_key = k /\ o.seq = s}

\* C25: when the backend call for a student fails during an ingest, the
\* signal stays in the log and with the connections it was pushed to, the
\* loop goes on to the students after it, and the request is answered 200
\* once a call has been made for every student the loop started with.
C25_ExecFailureContained ==
    [][\A r \in Slots :
          (req[r].op = "receiveSignal" /\ req[r].pc = "exec" /\ req'[r] # req[r])
          => LET sig == req[r].signal
                 k == Head(req[r].queue).license_key
                 failed == \E o \in orders' \ orders : o.result = "failed"
             IN /\ failed =>
                      /\ signals' = signals /\ inbox' = inbox
                      /\ \E i \in 1..Len(signals) : signals[i] = sig
                      /\ \A c \in Conns :
                            readyState[c] = 1 /\ sig.seq \in due[c] => PushCount(c, sig.seq) = 1
                      /\ IF Len(req[r].queue) > 1
                         THEN /\ req'[r] # Idle
                              /\ req'[r].pc = "exec"
                              /\ req'[r].queue = Tail(req[r].queue)
                         ELSE /\ req'[r] = Idle
                              /\ lastResp'.op = "receiveSignal"
                              /\ lastResp'.status = 200
                /\ req'[r] = Idle =>
                      /\ lastResp'.status = 200
                      /\ \A i \in 1..Len(students) :
                            (/\ students[i].mentor_id = sig.mentor_id
                             /\ students[i].status = "active")
                            => \E o \in orders' :
                                   /\ o.license_key = students[i].license_key
                                   /\ o.seq = sig.seq]_vars

\* a signal was pushed to the connection, its order failed for the first
\* student and was placed for the second, and the ingest was answered 200
C25_Witness ==
    /\ lastResp.op = "receiveSignal" /\ lastResp.status = 200
    /\ AllIdle
    /\ Len(students) = 2 /\ Len(signals) = 1
    /\ PushCount(1, 1) = 1
    /\ \E o \in CallsFor(students[1].license_key, 1) : o.result = "failed"
    /\ \E o \in CallsFor(students[2].license_key, 1) : o.result = "placed"

\* C30: every ingest that has passed authorization and validation is
\* eventually answered, and a call is eventually made for every student it
\* is to execute for, also when a backend call for another of them never
\* returns.
C30_IngestTerminates ==
    \A r \in Slots :
        (req[r].op = "receiveSignal" /\ req[r].pc = "exec")
            ~> (req[r] = Idle)

\* what holds of C30: an ingest is answered unless one of its backend calls
\* never returns (a call that fails or times out does not stop it)
TerminatesUnlessHung ==
    \A r \in Slots :
        (req[r].op = "receiveSignal")
            ~> (IF req[r].op = "receiveSignal" THEN req[r].pc = "hung" ELSE TRUE)

----------------------------------------------------------------------------
(* Credentials: one mentor, who may be set inactive, a license, a student,  *)
(* a connection; every operation that takes a credential is called, one     *)
(* call after the other, with a good one, a wrong one and none.             *)

\* the x-mentor-id of a request: none, an id that no mentor has, a registered id
AuthHeaders == MentorIds \cup {NoStr, <<"9","9","9","9","9">>}

Inactivate == \E i \in 1..Len(mentors) : AllIdle /\ MentorInactivated(i)

GenerateAs ==
    \E r \in Slots, m \in AuthHeaders :
        /\ AllIdle
        /\ Len(licenseKeys) < 1
        /\ GenerateLicenseBegin(r, m, "EA1")

DeactivateAs ==
    \E r \in Slots, m \in AuthHeaders, k \in KeyInputs \ {NoStr} :
        /\ AllIdle
        /\ Stored(k)
        /\ deactivated = <<>>
        /\ DeactivateLicenseBegin(r, m, k)

ListAs == \E r \in Slots, m \in AuthHeaders : AllIdle /\ ListLicensesBegin(r, m)

IngestAs ==
    \E r \in Slots, m \in AuthHeaders :
        /\ AllIdle
        /\ Len(issued) < 1
        /\ ReceiveSignalBegin(r, m, SignalBody("EA1", <<"b","u","y">>))

NextAuth ==
    \/ RegisterFirst
    \/ PickId
    \/ InsertOk
    \/ Inactivate
    \/ GenerateAs
    \/ GenerateFirstDraw
    \/ DeactivateAs
    \/ DeactivateResume
    \/ ListAs
    \/ ListResume
    \/ RegisterOneStudent
    \/ RegisterOneStudentOk
    \/ ConnectFirst
    \/ IngestAs
    \/ IngestDone
    \/ Exec
    \/ ListActive
    \/ Beat

SpecAuth == Init /\ [][NextAuth]_vars

(* Claims about credentials *)

\* no active mentor has the id
NoActiveMentor(id) ==
    \/ id = NoStr
    \/ ~\E i \in 1..Len(mentors) : mentors[i].mentor_id = id /\ mentors[i].active

\* the step resumes, after validateMentorId, a request of slot r that takes a
\* mentor id
ResumesMentorRequest(r) ==
    /\ req[r].op \in {"generateLicense", "deactivateLicense", "licenses", "receiveSignal"}
    /\ "mentorId" \in DOMAIN req[r]
    /\ req'[r] # req[r]

\* the step answers a request that takes the agent key
AnswersAgentRequest ==
    /\ lastResp' # lastResp
    /\ lastResp'.op \in {"vpsStudents", "vpsHeartbeat"}

\* C26: an operation that takes a mentor id answers 401 when the id is
\* absent or is that of no mentor or of an inactive mentor, and an operation
\* that takes the agent key answers 401 when the key is absent or wrong; in
\* both cases the licenses, the log, the students, what the connections were
\* sent and the orders stay as they were.
C26_Unauthorized ==
    [][/\ \A r \in Slots :
             (ResumesMentorRequest(r) /\ NoActiveMentor(req[r].mentorId))
             => /\ req'[r] = Idle
                /\ lastResp'.op = req[r].op /\ lastResp'.status = 401
                /\ UNCHANGED <<licenseKeys, signals, students, inbox, orders>>
       /\ (AnswersAgentRequest /\ lastResp'.apiKey # VPS_API_KEY)
             => /\ lastResp'.status = 401
                /\ UNCHANGED <<licenseKeys, signals, students, inbox, orders>>]_vars

\* with a license, a student, a signal and an open connection in place, the
\* mentor has been set inactive and its ingest has been answered 401
C26_Witness ==
    /\ lastResp.op = "receiveSignal" /\ lastResp.status = 401
    /\ Len(mentors) = 1 /\ ~mentors[1].active
    /\ Len(licenseKeys) = 1 /\ Len(students) = 1
    /\ readyState[1] = 1
    /\ signals = <<>> /\ Len(inbox[1]) = 1

\* the agent calls with a wrong key have been answered 401, the student as
\* it was registered
C26_WitnessAgent ==
    /\ lastResp.op = "vpsHeartbeat" /\ lastResp.status = 401
    /\ lastResp.apiKey = "wrong-key"
    /\ Len(students) = 1 /\ lastResp.key = students[1].license_key
    /\ students[1].vps_status[1].mt5_connected

\* the secrets of two servers that differ in nothing else
Secrets == {VPS_API_KEY, "another-secret"}

\* C29: the answer to a list request with a wrong agent key is the answer
\* that a server with any other secret, which the key does not match either,
\* gives to the same request.
C29_FailureIndependentOfSecret ==
    (lastResp.op = "vpsStudents" /\ lastResp.status = 401)
        => \A secret \in Secrets :
               lastResp.apiKey # secret =>
                   lastResp = [op |-> "vpsStudents", apiKey |-> lastResp.apiKey]
                                 @@ vpsStudentsResponseDebug(lastResp.apiKey, secret)

\* what holds of C29: in the variant with an execution backend the answer is
\* the same for every secret
FailureIndependentOfSecretWithBackend ==
    (lastResp.op = "vpsStudents" /\ lastResp.status = 401)
        => \A secret \in Secrets :
               lastResp.apiKey # secret =>
                   lastResp = [op |-> "vpsStudents", apiKey |-> lastResp.apiKey]
                                 @@ vpsStudentsResponse(lastResp.apiKey, secret)

\* there, a list request with a wrong key has been answered 401
FailureIndependentOfSecretWitness ==
    /\ lastResp.op = "vpsStudents" /\ lastResp.status = 401
    /\ lastResp.apiKey = "wrong-key"
    /\ Len(students) = 2

----------------------------------------------------------------------------
(* Mentor registrations, two of them in flight at a time *)

MaxMentorRows == 3     \* rows of the mentor table under concurrent registrations

Emails == {"ann@x", "bob@x"}

RegisterAny ==
    \E r \in Slots, email \in Emails, id \in {NoStr, <<"A","B","C">>} :
        /\ Len(mentors) + Suspended("mentorRegister") < MaxMentorRows
        /\ MentorRegisterBegin(r, "Ann", email, id)

PickAnyId == \E r \in Slots, u \in {0, 1} : MentorRegisterPickId(r, u)

RetryId == \E r \in Slots, u \in {0, 1} : MentorRegisterRetryId(r, u)

NextMentor ==
    \/ RegisterAny
    \/ PickAnyId
    \/ RetryId
    \/ Insert

SpecMentor == Init /\ [][NextMentor]_vars

\* the request r goes on from its e-mail lookup
AfterEmailLookup(r) ==
    /\ req[r].op = "mentorRegister"
    /\ req[r].pc = "emailChecked"
    /\ req'[r] # req[r]

\* the request r is answered with the id of a record that has its e-mail,
\* and the table is as it was
AnsweredAsRegistered(r) ==
    /\ req'[r] = Idle
    /\ lastResp'.op = "mentorRegister"
    /\ lastResp'.status = 200
    /\ lastResp'.already_registered
    /\ \E i \in 1..Len(mentors) :
           /\ mentors[i].email = req[r].email
           /\ mentors[i].mentor_id = lastResp'.mentor_id
    /\ mentors' = mentors

\* C28: a registration made with an e-mail that the directory holds already
\* is answered with the mentor_id of a record of that e-mail and
\* already_registered = true, and leaves the directory as it was.
C28_RegisterIdempotent ==
    [][\A r \in Slots :
          (AfterEmailLookup(r) /\ req[r].matching >= 1) => AnsweredAsRegistered(r)]_vars

\* the same, for an e-mail that exactly one record holds when the request is made
RegisterIdempotentOneRecord ==
    [][\A r \in Slots :
          (AfterEmailLookup(r) /\ req[r].matching = 1) => AnsweredAsRegistered(r)]_vars

RegisterIdempotentOneRecordWitness ==
    /\ lastResp.op = "mentorRegister"
    /\ lastResp.status = 200
    /\ lastResp.already_registered
    /\ Len(mentors) >= 1

\* C35: the mentor directory never holds two rows with the same e-mail nor
\* two rows with the same mentor_id, however the registrations interleave; a
\* supplied mentor_id that is taken is therefore never stored a second time.
C35_DirectoryUnique ==
    \A i, j \in 1..Len(mentors) :
        i < j => /\ mentors[i].email # mentors[j].email
                 /\ mentors[i].mentor_id # mentors[j].mentor_id

\* a registration inserts a row whose e-mail and mentor_id no row had when
\* the request looked them up: the id it stores is one its last lookup of
\* ids did not find
InsertsWhatLookupsMissed ==
    [][\A r \in Slots :
          (/\ req[r].op = "mentorRegister"
           /\ req[r].pc = "idChecked"
           /\ req'[r] = Idle
           /\ Len(mentors') > Len(mentors))
          => /\ req[r].idCheck = <<>>
             /\ mentors'[Len(mentors')].mentor_id = req[r].mentorIdGenerated
             /\ mentors'[Len(mentors')].email = req[r].email]_vars

\* the numbers of the signals in the snapshot connection c was sent
SnapshotSeqs(c) ==
    {inbox[c][1].signals[i].seq : i \in 1..Len(inbox[c][1].signals)}

\* the number of the newest signal of the log when c was sent its snapshot
SnapshotTop(c) ==
    IF inbox[c][1].signals = <<>> THEN 0 ELSE inbox[c][1].signals[1].seq

\* C37: a connection is never sent as a live push a signal that is in its
\* snapshot, and a connection that is open has been sent a live push of every
\* signal ingested after its snapshot was taken (a signal whose send to that
\* very connection raised aside).
C37_SnapshotThenPushes ==
    \A c \in Conns :
        readyState[c] # 0 =>
            /\ \A s \in SnapshotSeqs(c) : PushCount(c, s) = 0
            /\ readyState[c] = 1 =>
                   \A s \in (SnapshotTop(c) + 1)..Len(issued) :
                       <<c, s>> \notin sendFailed => PushCount(c, s) >= 1

\* the same, the second part for the signals during whose broadcast no send
\* raised
SnapshotThenPushesUnlessAborted ==
    \A c \in Conns :
        readyState[c] # 0 =>
            /\ \A s \in SnapshotSeqs(c) : PushCount(c, s) = 0
            /\ readyState[c] = 1 =>
                   \A s \in (SnapshotTop(c) + 1)..Len(issued) :
                       (\A d \in Conns : <<d, s>> \notin sendFailed)
                       => PushCount(c, s) = 1

\* an open connection holds a snapshot with a signal in it and a live push
\* of a later signal
SnapshotThenPushesWitness ==
    \E c \in Conns :
        /\ readyState[c] = 1
        /\ SnapshotTop(c) >= 1
        /\ sendFailed = {}
        /\ PushCount(c, SnapshotTop(c) + 1) = 1

\* the ingest r is answered in this step with one of the statuses
AnsweredWith(r, statuses) ==
    /\ req[r].op = "receiveSignal"
    /\ req'[r] = Idle
    /\ lastResp'.op = "receiveSignal"
    /\ lastResp'.status \in statuses

\* C38: an ingest that is answered 401, 400 or 500 leaves the log as it was
\* before the request, so that every signal of the log is one whose ingest
\* was answered with success.
C38_ErrorLeavesLog ==
    [][\A r \in Slots :
          AnsweredWith(r, {400, 401, 500}) => signals' = signals /\ issued' = issued]_vars

\* the same for the answers 401 and 400, which are given before the append
RefusalLeavesLog ==
    [][\A r \in Slots :
          AnsweredWith(r, {400, 401}) => signals' = signals /\ issued' = issued]_vars

\* the ingest r of a validated mentor goes on from its validation, with a
\* body that has every required field
ResumesComplete(r) ==
    /\ req[r].op = "receiveSignal" /\ req[r].pc = "validated"
    /\ req'[r] # req[r]
    /\ req[r].mentor # <<>>
    /\ MissingFields(req[r].body) = {}

\* the body of r is appended to the log and pushed to the open connections
AppendedAndBroadcast(r) ==
    /\ Len(issued') = Len(issued) + 1
    /\ signals' # <<>>
    /\ signals'[1].seq = Len(issued')
    /\ signals'[1].sl = req[r].body.sl[1]
    /\ signals'[1].tp = req[r].body.tp[1]
    /\ \A c \in Range(openClients) : Len(inbox'[c]) = Len(inbox[c]) + 1
    /\ ~(req'[r] = Idle /\ lastResp'.status = 400)

\* C40: an ingest of a validated mentor that carries every required field
\* (ea_id, type, symbol, sl, tp) is not refused for a missing field: it is
\* appended and broadcast whatever the values, sl = 0 included.
C40_PresentIsEnough ==
    [][\A r \in Slots : ResumesComplete(r) => AppendedAndBroadcast(r)]_vars

\* the same for the bodies none of whose required values is falsy
TruthyIsEnough ==
    [][\A r \in Slots :
          (ResumesComplete(r) /\ ~missingRequired(req[r].body))
          => AppendedAndBroadcast(r)]_vars

----------------------------------------------------------------------------
(* Copying of signals to the students of two mentors, while students are    *)
(* stopped and licenses deactivated                                         *)

Types == {<<"b","u","y">>, <<"S","e","l","l">>, <<"h","o","l","d">>}

DeactivateStored ==
    \E r \in Slots, m \in MentorIds :
        \E i \in 1..Len(licenseKeys) :
            /\ AllIdle
            /\ deactivated = <<>>
            /\ DeactivateLicenseBegin(r, m, licenseKeys[i].key)

IngestCopy ==
    \E r \in Slots, m \in MentorIds, type \in Types :
        /\ AllIdle
        /\ Len(issued) < MaxIngestCopy
        /\ ReceiveSignalBegin(r, m, SignalBody("EA1", type))

StopStudent == \E i \in 1..Len(students) : StudentStop(students[i].license_key)

NextCopy ==
    \/ RegisterAnn
    \/ RegisterBob
    \/ PickId
    \/ InsertOk
    \/ GenerateForStudents
    \/ GenerateResume
    \/ RegisterEachStudent
    \/ RegisterOneStudentOk
    \/ DeactivateStored
    \/ DeactivateResume
    \/ StopStudent
    \/ IngestCopy
    \/ IngestDone
    \/ Exec

SpecCopy == Init /\ [][NextCopy]_vars

(* Claims about the copying *)

\* the student records of license key k
StudentsOf(k) == {i \in 1..Len(students) : students[i].license_key = k}

\* C31: an order call is made only for a student whose status is active
\* when the call is made, so that a stop answered while the loop is at
\* another student keeps the order from the stopped one.
C31_NoOrderAfterStop ==
    [][\A o \in orders' \ orders :
          \A i \in StudentsOf(o.license_key) : students[i].status = "active"]_vars

\* the license records of key k
LicensesOf(k) == {i \in 1..Len(licenseKeys) : licenseKeys[i].key = k}

\* C33: an order call is made only for a student whose license is active;
\* licenses change between ingests only, so the license is at the call as it
\* was when the signal was ingested.
C33_NoOrderForInactiveLicense ==
    [][\A o \in orders' \ orders :
          \A i \in LicensesOf(o.license_key) : licenseKeys[i].active]_vars

\* the signal of the order call o, as the request that makes the call holds it
SignalOf(o) == {req[r].signal : r \in {q \in Slots : /\ req[q].op = "receiveSignal"
                                                      /\ req[q].pc = "exec"
                                                      /\ req[q].signal.seq = o.seq}}

\* C34: an order call for a signal is made only for a student whose record,
\* and whose license, carry the mentor_id of the mentor that ingested the
\* signal.
C34_OrdersWithinMentor ==
    [][\A o \in orders' \ orders :
          \A sig \in SignalOf(o) :
              /\ \A i \in StudentsOf(o.license_key) :
                     students[i].mentor_id = sig.mentor_id
              /\ \A i \in LicensesOf(o.license_key) :
                     licenseKeys[i].mentor_id = sig.mentor_id]_vars

\* both mentors have an active student, a signal of one of them was ingested
\* and answered, and the only order call was for that mentor's student
C34_Witness ==
    /\ lastResp.op = "receiveSignal" /\ lastResp.status = 200
    /\ AllIdle
    /\ Len(signals) = 1
    /\ \E i, j \in 1..Len(students) :
           /\ students[i].mentor_id = signals[1].mentor_id
           /\ students[j].mentor_id # signals[1].mentor_id
           /\ students[i].status = "active" /\ students[j].status = "active"
           /\ \E o \in orders : o.license_key = students[i].license_key
           /\ \A o \in orders : o.license_key # students[j].license_key

\* C39: every signal of the log has type BUY or SELL, and an order call of
\* a side is made only for a signal of that type (sell for SELL, buy for BUY).
C39_BuyOrSell ==
    /\ \A i \in 1..Len(signals) :
           signals[i].type \in {<<"B","U","Y">>, <<"S","E","L","L">>}
    /\ \A o \in orders : \A i \in 1..Len(signals) :
           signals[i].seq = o.seq
           => signals[i].type = (IF o.side = "sell" THEN <<"S","E","L","L">>
                                 ELSE <<"B","U","Y">>)

\* for the signals whose type is buy or sell in any case of letters, the
\* stored type is BUY or SELL and the order call is of that side
BuyOrSellWhenSentSo ==
    /\ \A i \in 1..Len(signals) :
           signals[i].type # <<"H","O","L","D">>
           => signals[i].type \in {<<"B","U","Y">>, <<"S","E","L","L">>}
    /\ \A o \in orders : \A i \in 1..Len(signals) :
           (signals[i].seq = o.seq /\ signals[i].type # <<"H","O","L","D">>)
           => signals[i].type = (IF o.side = "sell" THEN <<"S","E","L","L">>
                                 ELSE <<"B","U","Y">>)

----------------------------------------------------------------------------
(* Registrations of students while the license is deactivated *)

DeactivateMeanwhile ==
    \E r \in Slots, m \in MentorIds :
        \E i \in 1..Len(licenseKeys) :
            /\ NoneSuspended("mentorRegister") /\ NoneSuspended("generateLicense")
            /\ Len(deactivated) + Suspended("deactivateLicense") < 1
            /\ DeactivateLicenseBegin(r, m, licenseKeys[i].key)

NextEnroll ==
    \/ RegisterFirst
    \/ PickId
    \/ InsertOk
    \/ GenerateOne
    \/ GenerateFirstDraw
    \/ RegisterStudentBegin
    \/ RegisterStudentResume
    \/ DeactivateMeanwhile
    \/ DeactivateResume

SpecEnroll == Init /\ [][NextEnroll]_vars

\* C32: when a record is added to the student registry, the license it names
\* is in the license registry and active in the state it is added in.
C32_StudentOfActiveLicense ==
    [][Len(students') > Len(students)
          => \E i \in 1..Len(licenseKeys) :
                /\ licenseKeys[i].key = students'[Len(students')].license_key
                /\ licenseKeys[i].active]_vars

\* a record is added only by a registration that found the license active
\* when it was made
StudentOfLicenseActiveAtRequest ==
    [][Len(students') > Len(students)
          => \E r \in Slots :
                /\ req[r].op = "studentRegister"
                /\ req[r].license.active
                /\ req[r].license.key = students'[Len(students')].license_key]_vars

----------------------------------------------------------------------------
(* The log under ingests that are in flight together *)

IngestTogether ==
    \E r \in Slots, m \in MentorIds :
        /\ NoneSuspended("mentorRegister")
        /\ Len(issued) + Suspended("receiveSignal") < MaxIngestLog
        /\ ReceiveSignalBegin(r, m, SignalBody("EA1", <<"s","e","l","l">>))

NextTogether ==
    \/ RegisterFirst
    \/ PickId
    \/ InsertOk
    \/ IngestTogether
    \/ IngestDone

SpecTogether == Init /\ [][NextTogether]_vars

\* C36: with ingests in flight together, the step that appends a signal
\* leaves it at the head of the log with the signals that were there behind
\* it, in their order, none of them lost but those beyond the 100th; the
\* log has min(number of appends, 100) signals, and no other step changes it.
C36_NoLostAppend ==
    [][/\ Len(signals') = Min(Len(issued'), 100)
       /\ issued' = issued => signals' = signals
       /\ issued' # issued =>
             /\ Len(issued') = Len(issued) + 1
             /\ signals'[1].seq = Len(issued')
             /\ \A i \in 2..Len(signals') : signals'[i] = signals[i - 1]]_vars

\* more than 100 signals were appended, and the first of two ingests in
\* flight together has been answered while the second is still waiting
C36_Witness ==
    /\ Len(issued) > 100
    /\ Len(signals) = 100
    /\ lastResp.op = "receiveSignal" /\ lastResp.status = 200
    /\ req[1] = Idle
    /\ req[2].op = "receiveSignal"

====
